---------------------------- MODULE Spec2Model ----------------------------
(***************************************************************************)
(* The multi-car elevator dispatch engine of "Elevator System/index.js":   *)
(* Request, Elevator (the Car) and ElevatorController (the Dispatcher).    *)
(*                                                                         *)
(* JavaScript runs every handler to its next `await`; an action of this    *)
(* module is one such run.  An Elevator's drain (processRequests) is       *)
(* suspended either on the 1000 ms timer of moveToFloor (pc "toSource",    *)
(* "toDest") or on the await of a moveToFloor call that returned without   *)
(* moving (pc "resume").                                                   *)
(***************************************************************************)
EXTENDS Integers, Sequences, FiniteSets, TLC

\* Bounds of the model.
MaxFloor == 2
MaxCalls == 2
MaxCarCalls == 3
MaxDeepCalls == 4
MaxObservedCalls == 2
MaxServedCalls == 2
MaxTrafficCalls == 3
MaxUsers == 2
MaxSold == 19
MaxRentalCalls == 3
MaxDay == 3
MaxAirlineCalls == 4
MaxSeat == 2
MaxAtmCalls == 4
MaxCallers == 3

\* new ElevatorSystem(3, 5): the number of cars and their capacity.
NumElevators == 3
CapacityLimit == 5

\* The capacities a system is built with: none, one, and the program's own.
Capacities == {0, 1, CapacityLimit}

Floors == 0..MaxFloor

VARIABLES
    elevators,  \* ElevatorController.elevators: the Elevator objects, in list order
    observed,   \* the car an observer watches (0: none)
    console,    \* the observer's transcript: where the car started, the calls
                \* made on it and the lines it wrote to the console
    budget,     \* number of calls still to be made on the program under study
    lastCall,   \* the call made by the step just taken: operation, argument,
                \* outcome and value returned
    \* the traffic signal system of unnamed/part_001
    lights,     \* the TrafficLight of each road of TrafficController.roads
    isRunning,  \* TrafficController.isRunning
    lastTraffic,    \* the step just taken: operation, light, notifications sent
    \* the coffee machine of unnamed/part_001
    ingredients,    \* CoffeeMachine.ingredients: quantity and Mutex of each
    users,      \* the selectCoffee calls: where each is suspended
    microtasks, \* the continuations ready to run, in the order they will run
    \* the car rental system of unnamed/part_000
    isAvailable,    \* Car.isAvailable of each Car object
    reservations,   \* RentalSystem.reservations
    nextReservationId,  \* RentalSystem.nextReservationId
    lockedCars, \* RentalSystem.lockedCars
    lastRental, \* the call made by the step just taken and what it returned
    \* the airline system of "Airline Management System/index.js"
    seats,      \* Seat.seatStatus of each seat of the flight's aircraft
    bookings,   \* BookingManager.bookings
    payments,   \* PaymentProcessor.payments
    clock,      \* what Date.now() returns
    \* the ATM of unnamed/part_002
    accounts,   \* Account.balance of each account of BankingService.accounts
    totalCash,  \* CashDispenser.totalCash
    currentCard,    \* ATM.currentCard
    authenticated,  \* ATM.authenticated
    currentCardNumber,  \* ATM.currentCardNumber
    lastAtm,    \* the call made by the step just taken and whether it threw
    \* the parking lot of unnamed/part_003
    levels,     \* ParkingLot.levels: the occupiedVehicle of each ParkingSpot
    lotLock,    \* ParkingLot.lock: _locked and _waiting
    callers,    \* the calls made on the ParkingLot: where each is suspended
    jobs        \* the continuations ready to run, in the order they will run

elevatorVars == <<elevators, observed, console, lastCall>>
trafficVars == <<lights, isRunning, lastTraffic>>
coffeeVars == <<ingredients, users, microtasks>>
rentalVars == <<isAvailable, reservations, nextReservationId, lockedCars, lastRental>>
airlineVars == <<seats, bookings, payments, clock>>
atmVars == <<accounts, totalCash, currentCard, authenticated, currentCardNumber, lastAtm>>
parkingVars == <<levels, lotLock, callers, jobs>>
vars == <<elevatorVars, budget, trafficVars, coffeeVars, rentalVars, airlineVars,
          atmVars, parkingVars>>

\* The programs that a specification is not about: they are not constructed.
NoTraffic ==
    /\ lights = <<>>
    /\ isRunning = FALSE
    /\ lastTraffic = [op |-> "none"]
NoCoffee ==
    /\ ingredients = <<>>
    /\ users = <<>>
    /\ microtasks = <<>>
NoRental ==
    /\ isAvailable = <<>>
    /\ reservations = <<>>
    /\ nextReservationId = 0
    /\ lockedCars = {}
    /\ lastRental = [op |-> "none"]
NoAirline ==
    /\ seats = <<>>
    /\ bookings = <<>>
    /\ payments = <<>>
    /\ clock = 0
NoAtm ==
    /\ accounts = <<>>
    /\ totalCash = 0
    /\ currentCard = "null"
    /\ authenticated = FALSE
    /\ currentCardNumber = "null"
    /\ lastAtm = [op |-> "none"]
NoParking ==
    /\ levels = <<>>
    /\ lotLock = <<>>
    /\ callers = <<>>
    /\ jobs = <<>>
laterVars == <<airlineVars, atmVars, parkingVars>>
otherThanElevators == <<trafficVars, coffeeVars, rentalVars, laterVars>>
otherThanTraffic == <<elevatorVars, coffeeVars, rentalVars, laterVars>>
otherThanCoffee == <<elevatorVars, trafficVars, rentalVars, laterVars>>
otherThanRental == <<elevatorVars, trafficVars, coffeeVars, laterVars>>
earlierVars == <<elevatorVars, trafficVars, coffeeVars, rentalVars>>
otherThanAirline == <<earlierVars, atmVars, parkingVars>>
otherThanAtm == <<earlierVars, airlineVars, parkingVars>>
otherThanParking == <<earlierVars, airlineVars, atmVars>>

Cars == DOMAIN elevators

-----------------------------------------------------------------------------
\* Direction and Request

UP == "UP"
DOWN == "DOWN"
IDLE == "IDLE"

RequestUpOnTie(sourceFloor, destinationFloor) ==
    [sourceFloor |-> sourceFloor,
     destinationFloor |-> destinationFloor,
     direction |-> IF destinationFloor >= sourceFloor THEN UP ELSE DOWN]

Request(sourceFloor, destinationFloor) ==
    [sourceFloor |-> sourceFloor,
     destinationFloor |-> destinationFloor,
     direction |-> IF destinationFloor > sourceFloor THEN UP ELSE DOWN]

Requests == {Request(s, d) : s \in Floors, d \in Floors}

\* The value of the local `request` of processRequests when no drain runs.
NoRequest == [sourceFloor |-> -1, destinationFloor |-> -1, direction |-> IDLE]

-----------------------------------------------------------------------------
\* Elevator

Elevator(id, capacityLimit) ==
    [id |-> id,
     capacityLimit |-> capacityLimit,
     currentFloor |-> 0,
     direction |-> IDLE,
     requests |-> <<>>,
     passengers |-> 0,
     isMoving |-> FALSE,
     mutex |-> FALSE,
     pc |-> "idle",          \* where processRequests is suspended
     request |-> NoRequest,  \* the request processRequests is serving
     out |-> <<>>]           \* console lines written during the current run

Line(kind, floor, to) == [kind |-> kind, floor |-> floor, to |-> to]

Log(e, line) == [e EXCEPT !.out = Append(@, line)]

\* Variant: the DOWN comparator has its operands the wrong way round.
DescendingSwapped(a, b) == a.destinationFloor - b.destinationFloor

\* The comparators of optimizeRequests: a sorts before b when the
\* comparator's value is negative.
Ascending(a, b) == a.destinationFloor - b.destinationFloor
Descending(a, b) == b.destinationFloor - a.destinationFloor

Before(direction, a, b) ==
    IF direction = UP THEN Ascending(a, b) < 0 ELSE Descending(a, b) < 0

\* Array.prototype.sort is stable: an element goes after its equals.
RECURSIVE InsertBy(_, _, _)
InsertBy(sorted, r, direction) ==
    IF sorted = <<>> THEN <<r>>
    ELSE IF Before(direction, r, Head(sorted)) THEN <<r>> \o sorted
    ELSE <<Head(sorted)>> \o InsertBy(Tail(sorted), r, direction)

RECURSIVE SortBy(_, _)
SortBy(q, direction) ==
    IF q = <<>> THEN <<>>
    ELSE InsertBy(SortBy(SubSeq(q, 1, Len(q) - 1), direction), q[Len(q)], direction)

\* Variant: an IDLE elevator keeps its direction and its queue as they are.
optimizeRequestsNoAdopt(e) ==
    IF e.direction = UP THEN [e EXCEPT !.requests = SortBy(@, UP)]
    ELSE IF e.direction = DOWN THEN [e EXCEPT !.requests = SortBy(@, DOWN)]
    ELSE e

RECURSIVE optimizeRequests(_)
optimizeRequests(e) ==
    IF e.direction = UP THEN [e EXCEPT !.requests = SortBy(@, UP)]
    ELSE IF e.direction = DOWN THEN [e EXCEPT !.requests = SortBy(@, DOWN)]
    ELSE IF Len(e.requests) > 0
         THEN optimizeRequests([e EXCEPT !.direction = e.requests[1].direction])
         ELSE e

\* How many times optimizeRequests calls itself when called on e.
RECURSIVE optimizeDepth(_)
optimizeDepth(e) ==
    IF e.direction = UP THEN 0
    ELSE IF e.direction = DOWN THEN 0
    ELSE IF Len(e.requests) > 0
         THEN 1 + optimizeDepth([e EXCEPT !.direction = e.requests[1].direction])
         ELSE 0

\* moveToFloor(floor) up to its first await: it logs, then either waits for
\* the timer (TRUE) or returns at once because the car is at the floor.
moveToFloorStart(e, floor) == Log(e, Line("moving", e.currentFloor, floor))
moveToFloorWaits(e, floor) == e.currentFloor # floor

\* The body of processRequests from a given point up to the next suspension.
\* `chained` says that the run was started by a timer, so that the await of a
\* moveToFloor that returned at once is resumed before any other code runs.
RECURSIVE WhileRequests(_, _), Pickup(_, _), Dropoff(_, _)

\* Variant: the passenger is picked up without travelling to the source floor.
WhileRequestsNoTravel(e, chained) ==
    IF Len(e.requests) > 0
    THEN Pickup([e EXCEPT !.requests = Tail(@), !.request = Head(e.requests)],
                chained)
    ELSE [e EXCEPT !.isMoving = FALSE, !.pc = "idle", !.request = NoRequest]

\* Variant: the loop ends without clearing isMoving.
WhileRequestsStaysMoving(e, chained) ==
    IF Len(e.requests) > 0
    THEN LET r == Head(e.requests)
             e1 == [e EXCEPT !.requests = Tail(@), !.request = r]
         IN IF e1.currentFloor # r.sourceFloor
            THEN [moveToFloorStart(e1, r.sourceFloor) EXCEPT !.pc = "toSource"]
            ELSE Pickup(e1, chained)
    ELSE [e EXCEPT !.pc = "idle", !.request = NoRequest]

\* while (this.requests.length > 0) { const request = this.requests.shift(); ...
WhileRequests(e, chained) ==
    IF Len(e.requests) > 0
    THEN LET r == Head(e.requests)
             e1 == [e EXCEPT !.requests = Tail(@), !.request = r]
         IN IF e1.currentFloor # r.sourceFloor
            THEN [moveToFloorStart(e1, r.sourceFloor) EXCEPT !.pc = "toSource"]
            ELSE Pickup(e1, chained)
    ELSE [e EXCEPT !.isMoving = FALSE, !.pc = "idle", !.request = NoRequest]

\* Variant: the pickup does not count the passenger.
PickupWithoutCount(e, chained) ==
    LET e1 == Log(e, Line("pickup", e.currentFloor, e.currentFloor))
        e2 == moveToFloorStart(e1, e.request.destinationFloor)
    IN IF moveToFloorWaits(e1, e.request.destinationFloor)
       THEN [e2 EXCEPT !.pc = "toDest"]
       ELSE IF chained THEN Dropoff(e2, chained)
            ELSE [e2 EXCEPT !.pc = "resume"]

\* this.passengers += 1; ...; await this.moveToFloor(request.destinationFloor)
Pickup(e, chained) ==
    LET e1 == Log([e EXCEPT !.passengers = @ + 1],
                  Line("pickup", e.currentFloor, e.currentFloor))
        e2 == moveToFloorStart(e1, e.request.destinationFloor)
    IN IF moveToFloorWaits(e1, e.request.destinationFloor)
       THEN [e2 EXCEPT !.pc = "toDest"]
       ELSE IF chained THEN Dropoff(e2, chained)
            ELSE [e2 EXCEPT !.pc = "resume"]

\* Variant: the direction is not reset when the queue has run empty.
DropoffKeepsDirection(e, chained) ==
    LET e1 == Log([e EXCEPT !.passengers = @ - 1],
                  Line("dropoff", e.currentFloor, e.currentFloor))
        e2 == IF Len(e1.requests) = 0
              THEN e1
              ELSE [e1 EXCEPT !.direction = e1.requests[1].direction]
    IN WhileRequests(e2, chained)

\* Variant: the direction is reset when the queue has run empty and is
\* otherwise left as it was.
DropoffStaleDirection(e, chained) ==
    LET e1 == Log([e EXCEPT !.passengers = @ - 1],
                  Line("dropoff", e.currentFloor, e.currentFloor))
        e2 == IF Len(e1.requests) = 0
              THEN [e1 EXCEPT !.direction = IDLE]
              ELSE e1
    IN WhileRequests(e2, chained)

\* Variant: the drain ends after the first drop-off instead of going back to
\* the loop test.
DropoffEndsDrain(e, chained) ==
    LET e1 == Log([e EXCEPT !.passengers = @ - 1],
                  Line("dropoff", e.currentFloor, e.currentFloor))
        e2 == IF Len(e1.requests) = 0
              THEN [e1 EXCEPT !.direction = IDLE]
              ELSE [e1 EXCEPT !.direction = e1.requests[1].direction]
    IN [e2 EXCEPT !.isMoving = FALSE, !.pc = "idle", !.request = NoRequest]

\* Variant: the drop-off does not count the passenger out.
DropoffWithoutCount(e, chained) ==
    LET e1 == Log(e, Line("dropoff", e.currentFloor, e.currentFloor))
        e2 == IF Len(e1.requests) = 0
              THEN [e1 EXCEPT !.direction = IDLE]
              ELSE [e1 EXCEPT !.direction = e1.requests[1].direction]
    IN WhileRequests(e2, chained)

\* this.passengers -= 1; ...; the direction reset; back to the loop test
Dropoff(e, chained) ==
    LET e1 == Log([e EXCEPT !.passengers = @ - 1],
                  Line("dropoff", e.currentFloor, e.currentFloor))
        e2 == IF Len(e1.requests) = 0
              THEN [e1 EXCEPT !.direction = IDLE]
              ELSE [e1 EXCEPT !.direction = e1.requests[1].direction]
    IN WhileRequests(e2, chained)

\* processRequests() as called (not awaited) by addRequest.
processRequests(e) == WhileRequests([e EXCEPT !.isMoving = TRUE], FALSE)

\* Variant: the car always steps one floor up.
moveToFloorStepUpOnly(e) ==
    LET floor == IF e.pc = "toSource" THEN e.request.sourceFloor
                 ELSE e.request.destinationFloor
        next == e.currentFloor + 1
        e1 == Log([e EXCEPT !.currentFloor = next], Line("arrival", next, next))
    IN IF e1.currentFloor # floor THEN e1
       ELSE IF e.pc = "toSource" THEN Pickup(e1, TRUE)
       ELSE Dropoff(e1, TRUE)

\* One timer tick of moveToFloor and what follows it in the same run.
moveToFloorStep(e) ==
    LET floor == IF e.pc = "toSource" THEN e.request.sourceFloor
                 ELSE e.request.destinationFloor
        next == IF e.currentFloor < floor THEN e.currentFloor + 1
                ELSE e.currentFloor - 1
        e1 == Log([e EXCEPT !.currentFloor = next], Line("arrival", next, next))
    IN IF e1.currentFloor # floor THEN e1
       ELSE IF e.pc = "toSource" THEN Pickup(e1, TRUE)
       ELSE Dropoff(e1, TRUE)

\* Variant: the capacity test refuses a car one passenger short of full.
AtCapacityEarly(e) == e.passengers + 1 >= e.capacityLimit

\* Variant: the capacity test lets a full car through.
AtCapacityStrict(e) == e.passengers > e.capacityLimit

\* if (this.passengers >= this.capacityLimit) of addRequest
AtCapacity(e) == e.passengers >= e.capacityLimit

\* Variant: the rejection empties the queue.
RejectedClearsQueue(e) ==
    [Log(e, Line("atCapacity", e.currentFloor, e.currentFloor))
       EXCEPT !.mutex = FALSE, !.requests = <<>>]

\* The elevator after a rejected addRequest.
Rejected(e) == [Log(e, Line("atCapacity", e.currentFloor, e.currentFloor))
                  EXCEPT !.mutex = FALSE]

\* Variant: the request is put in the queue twice.
PushTwice(e, request) ==
    [e EXCEPT !.requests = Append(Append(@, request), request)]

\* this.requests.push(request)
Push(e, request) == [e EXCEPT !.requests = Append(@, request)]

\* Variant: the early return of the capacity test keeps the mutex.
addRequestNoRelease(e, request) ==
    LET e0 == [e EXCEPT !.mutex = TRUE]
    IN IF AtCapacity(e0) THEN <<[Rejected(e0) EXCEPT !.mutex = TRUE], FALSE>>
       ELSE LET e1 == optimizeRequests(Push(e0, request))
                e2 == IF ~e1.isMoving THEN processRequests(e1) ELSE e1
            IN <<[e2 EXCEPT !.mutex = FALSE], TRUE>>

\* Variant: the drain is awaited, so the call stays suspended, holding the
\* mutex, while the drain is in progress.
addRequestAwaitsDrain(e, request) ==
    LET e0 == [e EXCEPT !.mutex = TRUE]
    IN IF AtCapacity(e0) THEN <<Rejected(e0), FALSE>>
       ELSE LET e1 == optimizeRequests(Push(e0, request))
                e2 == IF ~e1.isMoving THEN processRequests(e1) ELSE e1
            IN <<[e2 EXCEPT !.mutex = e2.isMoving], TRUE>>

\* Variant: the drain is not started.
addRequestNeverDrains(e, request) ==
    LET e0 == [e EXCEPT !.mutex = TRUE]
    IN IF AtCapacity(e0) THEN <<Rejected(e0), FALSE>>
       ELSE LET e1 == optimizeRequests(Push(e0, request))
            IN <<[e1 EXCEPT !.mutex = FALSE], TRUE>>

\* Variant: the drain is started without testing isMoving.
addRequestAlwaysDrains(e, request) ==
    LET e0 == [e EXCEPT !.mutex = TRUE]
    IN IF AtCapacity(e0) THEN <<Rejected(e0), FALSE>>
       ELSE LET e1 == optimizeRequests(Push(e0, request))
                e2 == processRequests(e1)
            IN <<[e2 EXCEPT !.mutex = FALSE], TRUE>>

\* addRequest(request) from `this.mutex = true` to its return; the result is
\* <<the elevator, the value returned>>.
addRequest(e, request) ==
    LET e0 == [e EXCEPT !.mutex = TRUE]
    IN IF AtCapacity(e0) THEN <<Rejected(e0), FALSE>>
       ELSE LET e1 == optimizeRequests(Push(e0, request))
                e2 == IF ~e1.isMoving THEN processRequests(e1) ELSE e1
            IN <<[e2 EXCEPT !.mutex = FALSE], TRUE>>

-----------------------------------------------------------------------------
\* ElevatorController

Abs(x) == IF x < 0 THEN -x ELSE x

\* Variant: a later elevator at the same distance replaces the earlier one.
RECURSIVE findFromLastTie(_, _, _, _, _)
findFromLastTie(els, i, request, optimal, minDistance) ==
    IF i > Len(els) THEN optimal
    ELSE IF els[i].passengers >= els[i].capacityLimit
         THEN findFromLastTie(els, i + 1, request, optimal, minDistance)
         ELSE LET distance == Abs(els[i].currentFloor - request.sourceFloor)
              IN IF minDistance = -1 \/ distance <= minDistance
                 THEN findFromLastTie(els, i + 1, request, i, distance)
                 ELSE findFromLastTie(els, i + 1, request, optimal, minDistance)

\* Variant: an elevator exactly at its capacity still counts as available.
RECURSIVE findFromAtCapacity(_, _, _, _, _)
findFromAtCapacity(els, i, request, optimal, minDistance) ==
    IF i > Len(els) THEN optimal
    ELSE IF els[i].passengers > els[i].capacityLimit
         THEN findFromAtCapacity(els, i + 1, request, optimal, minDistance)
         ELSE LET distance == Abs(els[i].currentFloor - request.sourceFloor)
              IN IF minDistance = -1 \/ distance < minDistance
                 THEN findFromAtCapacity(els, i + 1, request, i, distance)
                 ELSE findFromAtCapacity(els, i + 1, request, optimal, minDistance)

\* The loop of findOptimalElevator over elevators[i..]: the index of the
\* optimal elevator so far (0: null) and its distance (-1: Infinity).
RECURSIVE findFrom(_, _, _, _, _)
findFrom(els, i, request, optimal, minDistance) ==
    IF i > Len(els) THEN optimal
    ELSE IF els[i].passengers >= els[i].capacityLimit
         THEN findFrom(els, i + 1, request, optimal, minDistance)
         ELSE LET distance == Abs(els[i].currentFloor - request.sourceFloor)
              IN IF minDistance = -1 \/ distance < minDistance
                 THEN findFrom(els, i + 1, request, i, distance)
                 ELSE findFrom(els, i + 1, request, optimal, minDistance)

findOptimalElevator(els, request) == findFrom(els, 1, request, 0, -1)

-----------------------------------------------------------------------------
\* What an observer of the console keeps, and the elevator between runs.

Flush(e) == [e EXCEPT !.out = <<>>]

Record(c, e) == IF observed = c THEN console \o e.out ELSE console

Called(c, request, e) ==
    IF observed = c
    THEN console
         \o <<Line("addRequest", request.sourceFloor, request.destinationFloor)>>
         \o e.out
    ELSE console

\* The value a JavaScript function without a return statement gives its caller.
Undefined == "undefined"

\* A call as its caller sees it: ret is what became of the request, returned
\* is the value the call returned (for addRequest, the value its promise
\* resolves to).
Call(op, c, request, ret, returned) ==
    [op |-> op, car |-> c, request |-> request, ret |-> ret,
     returned |-> returned]

NoCall == Call("none", 0, NoRequest, "none", "none")

-----------------------------------------------------------------------------
\* The state after construction: a controller over NumElevators elevators,
\* each built with a capacity of its own.

Init ==
    /\ \E capacityLimit \in [1..NumElevators -> Capacities] :
         elevators = [i \in 1..NumElevators |-> Elevator(i, capacityLimit[i])]
    /\ console = <<>>
    /\ lastCall = NoCall
    /\ observed = 0
    /\ budget = MaxCalls
    /\ NoTraffic /\ NoCoffee /\ NoRental
    /\ NoAirline /\ NoAtm /\ NoParking

\* Variant: the request is handed to every elevator that is not at capacity.
HandleRequestBroadcast(request) ==
    /\ budget > 0
    /\ budget' = budget - 1
    /\ LET c == findOptimalElevator(elevators, request)
       IN IF c # 0
          THEN /\ \A i \in Cars : ~elevators[i].mutex
               /\ elevators' =
                    [i \in Cars |->
                       IF AtCapacity(elevators[i]) THEN elevators[i]
                       ELSE Flush(addRequest(elevators[i], request)[1])]
               /\ console' = Called(c, request, addRequest(elevators[c], request)[1])
               /\ lastCall' = Call("handleRequest", c, request, "accepted",
                                   Undefined)
          ELSE /\ UNCHANGED <<elevators, console>>
               /\ lastCall' = Call("handleRequest", 0, request, "unserved",
                                   Undefined)
    /\ UNCHANGED <<observed, otherThanElevators>>

\* ElevatorController.handleRequest(request)
HandleRequest(request) ==
    /\ budget > 0
    /\ budget' = budget - 1
    /\ LET c == findOptimalElevator(elevators, request)
       IN IF c # 0
          THEN /\ ~elevators[c].mutex
               /\ LET res == addRequest(elevators[c], request)
                  IN /\ elevators' = [elevators EXCEPT ![c] = Flush(res[1])]
                     /\ console' = Called(c, request, res[1])
                     /\ lastCall' = Call("handleRequest", c, request,
                                         IF res[2] THEN "accepted" ELSE "rejected",
                                         Undefined)
          ELSE /\ UNCHANGED <<elevators, console>>
               /\ lastCall' = Call("handleRequest", 0, request, "unserved",
                                   Undefined)
    /\ UNCHANGED <<observed, otherThanElevators>>

\* Elevator.addRequest(request) called on elevator c by any other caller
AddRequest(c, request) ==
    /\ budget > 0
    /\ ~elevators[c].mutex
    /\ budget' = budget - 1
    /\ LET res == addRequest(elevators[c], request)
       IN /\ elevators' = [elevators EXCEPT ![c] = Flush(res[1])]
          /\ console' = Called(c, request, res[1])
          /\ lastCall' = Call("addRequest", c, request,
                              IF res[2] THEN "accepted" ELSE "rejected",
                              IF res[2] THEN "true" ELSE "false")
    /\ UNCHANGED <<observed, otherThanElevators>>

\* The 1000 ms timer of moveToFloor fires for elevator c
TimerFires(c) ==
    /\ elevators[c].pc \in {"toSource", "toDest"}
    /\ LET e == moveToFloorStep(elevators[c])
       IN /\ elevators' = [elevators EXCEPT ![c] = Flush(e)]
          /\ console' = Record(c, e)
    /\ lastCall' = NoCall
    /\ UNCHANGED <<observed, budget, otherThanElevators>>

\* processRequests resumes after awaiting a moveToFloor that did not move
Resume(c) ==
    /\ elevators[c].pc = "resume"
    /\ LET e == Dropoff(elevators[c], FALSE)
       IN /\ elevators' = [elevators EXCEPT ![c] = Flush(e)]
          /\ console' = Record(c, e)
    /\ lastCall' = NoCall
    /\ UNCHANGED <<observed, budget, otherThanElevators>>

Next ==
    \/ \E request \in Requests : HandleRequest(request)
    \/ \E c \in Cars : TimerFires(c)
    \/ \E c \in Cars : Resume(c)

Spec == Init /\ [][Next]_vars

-----------------------------------------------------------------------------
\* One Elevator, driven through addRequest by callers of its own.

InitElevator(capacityLimit, floor) ==
    /\ elevators = <<[Elevator(1, capacityLimit) EXCEPT !.currentFloor = floor]>>
    /\ lastCall = NoCall
    /\ NoTraffic /\ NoCoffee /\ NoRental
    /\ NoAirline /\ NoAtm /\ NoParking

InitCar ==
    /\ \E capacityLimit \in Capacities : InitElevator(capacityLimit, 0)
    /\ observed = 0
    /\ console = <<>>
    /\ budget = MaxCarCalls

NextCar ==
    \/ \E request \in Requests : AddRequest(1, request)
    \/ TimerFires(1)
    \/ Resume(1)

SpecCar == InitCar /\ [][NextCar]_vars

\* The same Elevator over one more call.
InitDeep ==
    /\ \E capacityLimit \in Capacities : InitElevator(capacityLimit, 0)
    /\ observed = 0
    /\ console = <<>>
    /\ budget = MaxDeepCalls

SpecDeep == InitDeep /\ [][NextCar]_vars

\* The same Elevator, idle at any floor (where earlier requests left it),
\* with an observer recording its console output.
InitObserved ==
    /\ \E capacityLimit \in Capacities, floor \in Floors :
         /\ InitElevator(capacityLimit, floor)
         /\ console = <<Line("start", floor, floor)>>
    /\ observed = 1
    /\ budget = MaxObservedCalls

SpecObserved == InitObserved /\ [][NextCar]_vars

\* An observed Elevator, idle at floor 0, when the event loop does its part:
\* a timer that is pending fires, and a drain that is ready to resume is
\* resumed.
InitServed ==
    /\ \E capacityLimit \in Capacities : InitElevator(capacityLimit, 0)
    /\ console = <<Line("start", 0, 0)>>
    /\ observed = 1
    /\ budget = MaxServedCalls

\* Weak fairness of the two steps of the drain, WF_vars(TimerFires(1)) and
\* WF_vars(Resume(1)), with ENABLED written out as the guard of the action.
TimerFairness ==
    \/ []<>(elevators[1].pc \notin {"toSource", "toDest"})
    \/ []<><<TimerFires(1)>>_vars
ResumeFairness ==
    \/ []<>(elevators[1].pc # "resume")
    \/ []<><<Resume(1)>>_vars

SpecServed ==
    /\ InitServed
    /\ [][NextCar]_vars
    /\ TimerFairness
    /\ ResumeFairness

-----------------------------------------------------------------------------
\* Vocabulary of the properties.

\* How many times request r is held by elevator e: pending or in service.
RECURSIVE Occurrences(_, _)
Occurrences(q, r) ==
    IF q = <<>> THEN 0
    ELSE (IF Head(q) = r THEN 1 ELSE 0) + Occurrences(Tail(q), r)

Held(e, r) == Occurrences(e.requests, r) + (IF e.request = r THEN 1 ELSE 0)

\* The fields of a Car that the specification names.
CarState(e) ==
    <<e.requests, e.direction, e.passengers, e.currentFloor, e.isMoving>>

Eligible(e) == e.passengers < e.capacityLimit
Full(e) == e.passengers >= e.capacityLimit
Distance(e, floor) ==
    IF e.currentFloor >= floor THEN e.currentFloor - floor
    ELSE floor - e.currentFloor

\* The step just taken was a call of op, on elevator c when c # 0.
JustCalled(op) == lastCall'.op = op

-----------------------------------------------------------------------------
\* C1: in every reachable state of an Elevator, whatever its capacity and
\* whatever addRequest calls and drain steps came before,
\* 0 <= passengers <= capacityLimit.
C1_OccupancyWithinCapacity ==
    \A c \in Cars :
        /\ 0 <= elevators[c].passengers
        /\ elevators[c].passengers <= elevators[c].capacityLimit

\* A car of capacity 1 that carries its passenger while another request,
\* accepted before the pickup, is still pending.
C1_Witness ==
    \E c \in Cars :
        /\ elevators[c].capacityLimit = 1
        /\ elevators[c].passengers = 1
        /\ Len(elevators[c].requests) > 0

\* C2: addRequest on an Elevator with passengers >= capacityLimit returns
\* false and leaves requests, direction, passengers, currentFloor and
\* isMoving as they were; on any other Elevator it returns true.
C2_RejectAtCapacity ==
    [][\A c \in Cars :
          (JustCalled("addRequest") /\ lastCall'.car = c) =>
              IF Full(elevators[c])
              THEN /\ lastCall'.ret = "rejected"
                   /\ CarState(elevators'[c]) = CarState(elevators[c])
              ELSE lastCall'.ret = "accepted"]_vars

\* A call was just rejected by a car that is carrying a passenger and has
\* a request pending.
C2_Witness ==
    \E c \in Cars :
        /\ lastCall.op = "addRequest" /\ lastCall.car = c
        /\ lastCall.ret = "rejected"
        /\ elevators[c].passengers = 1
        /\ Len(elevators[c].requests) > 0

\* C3: handleRequest forwards the request to the elevator with the least
\* |currentFloor - sourceFloor| among those with passengers < capacityLimit,
\* and among several at that distance to the first of the list.
C3_NearestEligibleFirst ==
    [][JustCalled("handleRequest") =>
          LET floor == lastCall'.request.sourceFloor
              eligible == {c \in Cars : Eligible(elevators[c])}
              chosen == lastCall'.car
          IN eligible # {} =>
               /\ chosen \in eligible
               /\ \A d \in eligible :
                     \/ Distance(elevators[chosen], floor)
                          < Distance(elevators[d], floor)
                     \/ /\ Distance(elevators[chosen], floor)
                            = Distance(elevators[d], floor)
                        /\ chosen <= d
               /\ Held(elevators'[chosen], lastCall'.request)
                    = Held(elevators[chosen], lastCall'.request) + 1
               /\ \A d \in Cars \ {chosen} : elevators'[d] = elevators[d]]_vars

\* handleRequest just chose the second elevator: the first one is available
\* but farther from the source floor, the third one is available and as
\* near as the second.
C3_Witness ==
    /\ lastCall.op = "handleRequest" /\ lastCall.car = 2
    /\ Eligible(elevators[1])
    /\ Distance(elevators[1], lastCall.request.sourceFloor)
         > Distance(elevators[2], lastCall.request.sourceFloor)
    /\ Eligible(elevators[3])
    /\ Distance(elevators[3], lastCall.request.sourceFloor)
         = Distance(elevators[2], lastCall.request.sourceFloor)

\* C4: when every elevator has passengers >= capacityLimit, handleRequest
\* drops the request: no elevator changes and nothing keeps the request.
C4_NoCarAvailableDrops ==
    [][(JustCalled("handleRequest") /\ \A c \in Cars : Full(elevators[c])) =>
          /\ elevators' = elevators
          /\ lastCall'.car = 0
          /\ lastCall'.ret = "unserved"]_vars

\* handleRequest just dropped a request while an elevator was carrying a
\* passenger.
C4_Witness ==
    /\ lastCall.op = "handleRequest" /\ lastCall.ret = "unserved"
    /\ \A c \in Cars : Full(elevators[c])
    /\ \E c \in Cars : elevators[c].passengers = 1

\* C5: addRequest calls on one Elevator never overlap inside the mutex: no
\* call is between setting and clearing it when another one starts, and each
\* call adds its own request to those the Elevator holds exactly once if it
\* is accepted and changes none of them otherwise, as the calls made one
\* after the other do.
C5_AddRequestCallsSerialised ==
    [][\A c \in Cars :
          /\ ~elevators[c].mutex
          /\ ~elevators'[c].mutex
          /\ (JustCalled("addRequest") /\ lastCall'.car = c) =>
                \A r \in Requests :
                    Held(elevators'[c], r)
                      = Held(elevators[c], r)
                        + (IF lastCall'.ret = "accepted" /\ r = lastCall'.request
                           THEN 1 ELSE 0)]_vars

\* Two calls made in one synchronous run: the drain started by the first is
\* still waiting to resume when the second has been accepted and queued.
C5_Witness ==
    \E c \in Cars :
        /\ lastCall.op = "addRequest" /\ lastCall.car = c
        /\ lastCall.ret = "accepted"
        /\ budget = MaxCarCalls - 2
        /\ elevators[c].pc = "resume"
        /\ elevators[c].requests = <<lastCall.request>>

\* The queue q is ordered by destinationFloor as direction asks.
OrderedBy(q, direction) ==
    \A i, j \in 1..Len(q) :
        i < j =>
            /\ direction = UP => q[i].destinationFloor <= q[j].destinationFloor
            /\ direction = DOWN => q[i].destinationFloor >= q[j].destinationFloor

\* C6: in every reachable state the pending queue is sorted consistently
\* with direction: ascending by destinationFloor when UP, descending when
\* DOWN.
C6_QueueSortedByDirection ==
    \A c \in Cars : OrderedBy(elevators[c].requests, elevators[c].direction)

\* C7: between runs, direction = IDLE exactly when the queue is empty and no
\* drain is in flight.
C7_IdleIffEmptyAndNotDraining ==
    \A c \in Cars :
        elevators[c].direction = IDLE
          <=> (elevators[c].requests = <<>> /\ elevators[c].pc = "idle"
               /\ ~elevators[c].isMoving)

\* A car that a finished drain left idle on another floor.
C7_Witness ==
    \E c \in Cars :
        /\ elevators[c].direction = IDLE
        /\ elevators[c].pc = "idle"
        /\ elevators[c].currentFloor # 0

\* C8: right after the re-sort of an accepted addRequest the queue is a
\* permutation of the previous queue and the new request, ascending by
\* destinationFloor when direction is UP and descending when it is DOWN.
\* (An idle car takes the head of that queue into service in the same run.)
C8_ResortedQueue ==
    [][\A c \in Cars :
          (JustCalled("addRequest") /\ lastCall'.car = c
             /\ lastCall'.ret = "accepted") =>
              LET sorted == IF elevators[c].isMoving
                            THEN elevators'[c].requests
                            ELSE <<elevators'[c].request>> \o elevators'[c].requests
              IN /\ \A r \in Requests :
                       Occurrences(sorted, r)
                         = Occurrences(elevators[c].requests, r)
                           + (IF r = lastCall'.request THEN 1 ELSE 0)
                 /\ elevators'[c].direction \in {UP, DOWN}
                 /\ OrderedBy(sorted, elevators'[c].direction)]_vars

\* A request just accepted by a car going DOWN was sorted in front of the
\* request that was queued before it.
C8_Witness ==
    \E c \in Cars :
        /\ lastCall.op = "addRequest" /\ lastCall.car = c
        /\ lastCall.ret = "accepted"
        /\ elevators[c].direction = DOWN
        /\ Len(elevators[c].requests) = 2
        /\ elevators[c].requests[1] = lastCall.request
        /\ elevators[c].requests[1].destinationFloor
             > elevators[c].requests[2].destinationFloor

\* The observer's transcript, taken apart.
IsEvent(line) == line.kind \in {"arrival", "pickup", "dropoff"}
IsCall(line) == line.kind = "addRequest"
Events == SelectSeq(console, IsEvent)
Calls == SelectSeq(console, IsCall)

\* One floor-arrival per floor on the way from floor `from` to floor `to`.
Arrivals(from, to) ==
    [i \in 1..(IF to >= from THEN to - from ELSE from - to) |->
        IF to >= from THEN Line("arrival", from + i, from + i)
        ELSE Line("arrival", from - i, from - i)]

ExpectedEvents(f, s, d) ==
    Arrivals(f, s) \o <<Line("pickup", s, s)>>
      \o Arrivals(s, d) \o <<Line("dropoff", d, d)>>

IsPrefix(p, q) == Len(p) <= Len(q) /\ p = SubSeq(q, 1, Len(p))

\* C9: an idle Elevator at floor f with free capacity that is given the
\* single request (s, d) produces exactly the events: one arrival per floor
\* from f to s, pickup at s, one arrival per floor from s to d, drop-off at
\* d, in this order; when the drain has ended direction is IDLE, passengers
\* is 0 and isMoving is false.
C9_SingleRequestEvents ==
    (observed = 1 /\ Len(Calls) = 1 /\ elevators[1].capacityLimit > 0) =>
        LET expected == ExpectedEvents(console[1].floor, Calls[1].floor, Calls[1].to)
        IN /\ IsPrefix(Events, expected)
           /\ elevators[1].pc = "idle" =>
                 /\ Events = expected
                 /\ elevators[1].direction = IDLE
                 /\ elevators[1].passengers = 0
                 /\ ~elevators[1].isMoving

\* The drain of a single request has ended after the car travelled to the
\* source floor and on to another floor.
C9_Witness ==
    /\ observed = 1 /\ Len(Calls) = 1
    /\ elevators[1].pc = "idle"
    /\ console[1].floor # Calls[1].floor
    /\ Calls[1].floor # Calls[1].to
    /\ Len(Events) >= 4

\* C10: on an idle Elevator of capacity 1, an addRequest whose sourceFloor is
\* the currentFloor is accepted and picks the passenger up in the same run
\* (passengers = 1 when the call returns); an addRequest made before that
\* passenger is dropped off returns false.
C10_PickupWithinAcceptingCall ==
    [][\A c \in Cars :
          (JustCalled("addRequest") /\ lastCall'.car = c
             /\ elevators[c].capacityLimit = 1) =>
              /\ (elevators[c].pc = "idle"
                    /\ lastCall'.request.sourceFloor = elevators[c].currentFloor) =>
                     /\ lastCall'.ret = "accepted"
                     /\ elevators'[c].request = lastCall'.request
                     /\ elevators'[c].passengers = 1
              /\ elevators[c].pc \in {"toDest", "resume"} =>
                     /\ lastCall'.ret = "rejected"
                     /\ elevators'[c].passengers = 1]_vars

\* The second of two calls made at once on a car of capacity 1 standing at
\* the source floor of the first was just rejected.
C10_Witness ==
    \E c \in Cars :
        /\ lastCall.op = "addRequest" /\ lastCall.car = c
        /\ lastCall.ret = "rejected"
        /\ budget = MaxCarCalls - 2
        /\ elevators[c].capacityLimit = 1
        /\ elevators[c].pc = "toDest"
        /\ elevators[c].currentFloor = elevators[c].request.sourceFloor
        /\ elevators[c].request.destinationFloor = MaxFloor

-----------------------------------------------------------------------------
\* The requests an elevator holds, pending or in service.
HeldRequests(e) ==
    {e.requests[i] : i \in 1..Len(e.requests)}
        \cup (IF e.pc = "idle" THEN {} ELSE {e.request})

\* C13: every Request built from (sourceFloor, destinationFloor) has
\* direction UP exactly when destinationFloor > sourceFloor and DOWN otherwise,
\* equal floors included; no Request has direction IDLE.  Checked on every
\* Request passed to addRequest and every Request an Elevator holds.
C13_RequestDirection ==
    \A r \in {lastCall.request} \cup UNION {HeldRequests(elevators[c]) : c \in Cars} :
        r # NoRequest =>
            /\ (r.direction = UP) <=> (r.destinationFloor > r.sourceFloor)
            /\ (r.direction = DOWN) <=> ~(r.destinationFloor > r.sourceFloor)
            /\ r.direction # IDLE

\* A Request with equal floors, direction DOWN, was accepted and is held
\* next to a Request that goes up.
C13_Witness ==
    /\ lastCall.op = "addRequest"
    /\ lastCall.ret = "accepted"
    /\ lastCall.request.sourceFloor = lastCall.request.destinationFloor
    /\ lastCall.request.direction = DOWN
    /\ lastCall.request \in HeldRequests(elevators[1])
    /\ \E r \in HeldRequests(elevators[1]) : r.direction = UP

-----------------------------------------------------------------------------
\* The drain of elevator e is in progress: processRequests was called and has
\* not returned.
Draining(e) == e.pc # "idle"

\* C20: isMoving is true exactly while a drain of the Elevator is in
\* progress, and a drain in progress is the only one: an addRequest call that
\* finds the Elevator moving starts no other, so the position of the drain and
\* the request it serves are left as they were and nothing leaves the queue.
C20_OneDrainWhileMoving ==
    /\ [](\A c \in Cars : elevators[c].isMoving <=> Draining(elevators[c]))
    /\ [][\A c \in Cars :
            (/\ lastCall'.op # "none"
             /\ lastCall'.car = c
             /\ Draining(elevators[c]))
            => /\ elevators'[c].pc = elevators[c].pc
               /\ elevators'[c].request = elevators[c].request
               /\ Len(elevators'[c].requests) >= Len(elevators[c].requests)]_vars

\* addRequest was accepted by an Elevator whose drain is suspended in a floor
\* step with a passenger on board.
C20_Witness ==
    /\ lastCall.op = "addRequest"
    /\ lastCall.ret = "accepted"
    /\ elevators[1].pc = "toDest"
    /\ elevators[1].isMoving
    /\ elevators[1].request # lastCall.request
    /\ Len(elevators[1].requests) = 2

-----------------------------------------------------------------------------
\* The console lines written by the step being taken.
NewLines == SubSeq(console', Len(console) + 1, Len(console'))
IsPickup(line) == line.kind = "pickup"
IsDropoff(line) == line.kind = "dropoff"

\* The floor the drain of e is travelling to.
Target(e) ==
    IF e.pc = "toSource" THEN e.request.sourceFloor
    ELSE e.request.destinationFloor

\* C19: every floor step moves the car by exactly one floor, towards the
\* floor the drain is travelling to, and nothing else moves it; every pickup
\* (passengers + 1) takes place at the sourceFloor of the request being
\* served and every drop-off (passengers - 1) at its destinationFloor.  The
\* requests a run serves are, in order, the one in service and those pending
\* (for a call that starts the drain: the request of the call).
C19_MotionAndStops ==
    [][LET e == elevators[1]
           e2 == elevators'[1]
           pickups == SelectSeq(NewLines, IsPickup)
           dropoffs == SelectSeq(NewLines, IsDropoff)
           served == IF lastCall'.op = "none" THEN <<e.request>> \o e.requests
                     ELSE <<lastCall'.request>>
           riding == IF e.pc \in {"toDest", "resume"} THEN 1 ELSE 0
       IN /\ (lastCall'.op = "none" /\ e.pc \in {"toSource", "toDest"})
             => /\ e2.currentFloor \in {e.currentFloor - 1, e.currentFloor + 1}
                /\ Distance(e2, Target(e)) = Distance(e, Target(e)) - 1
          /\ ~(lastCall'.op = "none" /\ e.pc \in {"toSource", "toDest"})
             => e2.currentFloor = e.currentFloor
          /\ \A i \in 1..Len(pickups) :
                /\ pickups[i].floor = e2.currentFloor
                /\ served[i + riding].sourceFloor = e2.currentFloor
          /\ \A i \in 1..Len(dropoffs) :
                /\ dropoffs[i].floor = e2.currentFloor
                /\ served[i].destinationFloor = e2.currentFloor
          /\ e2.passengers = e.passengers + Len(pickups) - Len(dropoffs)]_vars

\* The car left its start floor, picked a passenger up on one floor and
\* dropped the passenger off on another.
C19_Witness ==
    /\ elevators[1].pc = "idle"
    /\ \E i, j \in 1..Len(console) :
          /\ i < j
          /\ console[i].kind = "pickup"
          /\ console[j].kind = "dropoff"
          /\ console[i].floor # console[j].floor
          /\ console[i].floor # console[1].floor
          /\ console[j].floor = elevators[1].currentFloor

-----------------------------------------------------------------------------
\* C18: in a run of the drain that drops n passengers off (the one in service,
\* then the first n - 1 pending), the direction after the last drop-off is IDLE
\* if the queue was empty by then, and otherwise the direction of the request
\* then at the head, which the loop goes on to take into service; the reset
\* neither reorders nor removes anything: what is pending afterwards is what
\* was pending behind that head, in the same order.
C18_DirectionAfterDropoff ==
    [][LET e == elevators[1]
           e2 == elevators'[1]
           n == Len(SelectSeq(NewLines, IsDropoff))
       IN n > 0 =>
            IF Len(e.requests) < n
            THEN /\ e2.direction = IDLE
                 /\ e2.requests = <<>>
                 /\ ~Draining(e2)
            ELSE /\ e2.direction = e.requests[n].direction
                 /\ e2.request = e.requests[n]
                 /\ e2.requests = SubSeq(e.requests, n + 1, Len(e.requests))]_vars

\* The drain dropped off a passenger who was going up and set off for a
\* pending request that goes down.
C18_Witness ==
    /\ Len(console) > 2
    /\ console[Len(console) - 1].kind = "dropoff"
    /\ console[Len(console)].kind = "moving"
    /\ console[2].kind = "addRequest"
    /\ console[2].to > console[2].floor
    /\ elevators[1].direction = DOWN
    /\ elevators[1].request.direction = DOWN
    /\ elevators[1].pc = "toSource"

-----------------------------------------------------------------------------
\* The transcript read as a history of requests.
Pickups == SelectSeq(console, IsPickup)
Dropoffs == SelectSeq(console, IsDropoff)
IsStop(line) == IsPickup(line) \/ IsDropoff(line)
Stops == SelectSeq(console, IsStop)

\* The call recorded at position i was accepted: it wrote no capacity line.
Accepted(i) ==
    /\ console[i].kind = "addRequest"
    /\ i = Len(console) \/ console[i + 1].kind # "atCapacity"
AcceptedCalls == {i \in 1..Len(console) : Accepted(i)}

\* How many of the accepted calls carried request r, and how many times r was
\* served: picked up at its sourceFloor, then dropped off at its
\* destinationFloor.
CountAccepted(calls, r) ==
    Cardinality({i \in calls : /\ console[i].floor = r.sourceFloor
                               /\ console[i].to = r.destinationFloor})
CountServed(pickups, dropoffs, r) ==
    Cardinality({i \in 1..Len(dropoffs) :
                    /\ pickups[i].floor = r.sourceFloor
                    /\ dropoffs[i].floor = r.destinationFloor})
AcceptedCount(r) == CountAccepted(AcceptedCalls, r)
ServedCount(r) == CountServed(Pickups, Dropoffs, r)

\* C15: pickups and drop-offs alternate, one passenger at a time; every
\* accepted request is either still held by the Elevator (pending or in
\* service) or was served exactly once and is held no longer; a request
\* whose call was rejected is not among the accepted ones, so it is neither
\* held nor served.  Nothing is held or served that was not accepted.
C15_ServedExactlyOnce ==
    LET e == elevators[1]
        stops == Stops
        pickups == SelectSeq(stops, IsPickup)
        dropoffs == SelectSeq(stops, IsDropoff)
        calls == AcceptedCalls
        known == {Request(console[i].floor, console[i].to) : i \in calls}
                    \cup {Request(pickups[i].floor, dropoffs[i].floor) :
                             i \in 1..Len(dropoffs)}
                    \cup HeldRequests(e)
    IN /\ \A k \in 1..Len(stops) :
             stops[k].kind = IF k % 2 = 1 THEN "pickup" ELSE "dropoff"
       /\ Len(pickups) > Len(dropoffs)
             => /\ e.pc \in {"toDest", "resume"}
                /\ pickups[Len(pickups)].floor = e.request.sourceFloor
       /\ \A r \in known :
             CountAccepted(calls, r) = CountServed(pickups, dropoffs, r) + Held(e, r)

\* One call was accepted and its request served, another was rejected, and
\* the Elevator is idle with nothing left in its queue.
C15_Witness ==
    /\ ~Draining(elevators[1])
    /\ elevators[1].requests = <<>>
    /\ \E i \in 1..Len(console) : console[i].kind = "atCapacity"
    /\ Len(Dropoffs) = 1
    /\ \E r \in Requests : AcceptedCount(r) = 1 /\ ServedCount(r) = 1

-----------------------------------------------------------------------------
\* The requests assigned to elevator e and not yet dropped off.
Assigned(e) == Len(e.requests) + (IF Draining(e) THEN 1 ELSE 0)

\* C17: the number of requests assigned to a Car and not yet dropped off,
\* pending or in service, never exceeds the Car's capacityLimit, whatever
\* handleRequest calls were made and whenever they arrived.
C17_AssignedWithinCapacity ==
    \A c \in Cars : Assigned(elevators[c]) <= elevators[c].capacityLimit

-----------------------------------------------------------------------------
\* C12: whenever the drain takes the head of the queue into service while
\* the Car's direction is UP, no request still pending on that Car has a
\* smaller destinationFloor, and while it is DOWN none has a larger one.
\* The head taken last by a step is the request in service after it.
C12_HeadRemovedInPolicyOrder ==
    [][\A c \in Cars :
         LET e == elevators[c]
             e2 == elevators'[c]
         IN (/\ Draining(e2)
             /\ ~Draining(e) \/ Len(e2.requests) < Len(e.requests))
            => \A i \in 1..Len(e2.requests) :
                 /\ e2.direction = UP =>
                      e2.requests[i].destinationFloor >= e2.request.destinationFloor
                 /\ e2.direction = DOWN =>
                      e2.requests[i].destinationFloor <= e2.request.destinationFloor]_vars

-----------------------------------------------------------------------------
\* C14: handleRequest gives its caller a result for a request that no Car
\* could take that differs from the result for a request it forwarded to a
\* Car.  Compared on two calls made one after the other, one of each kind.
C14_UnservedResultDiffers ==
    [][(/\ lastCall.op = "handleRequest"
        /\ lastCall'.op = "handleRequest"
        /\ (lastCall.ret = "unserved") # (lastCall'.ret = "unserved"))
       => lastCall'.returned # lastCall.returned]_vars

-----------------------------------------------------------------------------
\* C16: handleRequest never waits for a Car: as long as calls are still to
\* be made, the Car that a call with any request would choose is not holding
\* its mutex, so the call runs through addRequest without entering its wait,
\* whatever the drains of the Cars are doing; and every step changes one Car
\* at most, so a call leaves the Cars it did not choose, and a floor step of
\* one Car leaves the others, exactly where they were.
C16_DispatchNeverWaits ==
    /\ [](budget > 0 =>
            \A request \in Requests :
                LET c == findOptimalElevator(elevators, request)
                IN c # 0 => ~elevators[c].mutex)
    /\ [][Cardinality({c \in Cars : elevators'[c] # elevators[c]}) <= 1]_vars

\* Two Cars are in mid-drain and both have left their floor: the second got
\* its request while the first was suspended in a floor step.
C16_Witness ==
    \E c, d \in Cars :
        /\ c # d
        /\ elevators[c].pc \in {"toSource", "toDest"}
        /\ elevators[d].pc \in {"toSource", "toDest"}
        /\ elevators[c].currentFloor > 0
        /\ elevators[d].currentFloor > 0
        /\ lastCall = NoCall

-----------------------------------------------------------------------------
\* Every request of an accepted call has been served as often as it was
\* accepted, and the Elevator holds nothing.
AllServed ==
    LET e == elevators[1]
        stops == Stops
        pickups == SelectSeq(stops, IsPickup)
        dropoffs == SelectSeq(stops, IsDropoff)
        calls == AcceptedCalls
    IN /\ e.requests = <<>>
       /\ ~Draining(e)
       /\ Len(pickups) = Len(dropoffs)
       /\ \A i \in calls :
             LET r == Request(console[i].floor, console[i].to)
             IN CountServed(pickups, dropoffs, r) = CountAccepted(calls, r)

\* C11: with finitely many calls, timers that fire and awaits that resume,
\* the Elevator reaches and keeps a state in which every accepted request has
\* been picked up at its sourceFloor and then dropped off at its
\* destinationFloor, none is left in the queue and none is left in service.
C11_AcceptedEventuallyServed == <>[]AllServed

\* Two requests that differ were accepted, the second before the first was
\* dropped off, and both have been served.
C11_Witness ==
    /\ AllServed
    /\ Len(Dropoffs) = 2
    /\ \E i, j \in AcceptedCalls :
          /\ i < j
          /\ <<console[i].floor, console[i].to>> # <<console[j].floor, console[j].to>>
          /\ \A k \in 1..j : ~IsDropoff(console[k])

-----------------------------------------------------------------------------
\* The state of an Elevator at rest.
AtRest(e) ==
    /\ e.requests = <<>>
    /\ e.passengers = 0
    /\ e.direction = IDLE
    /\ ~e.isMoving

\* C21: with finitely many calls, timers that fire and awaits that resume,
\* the drain of every Elevator terminates: the Elevator reaches, and from then
\* on stays in, the state with an empty queue, no passenger, direction IDLE
\* and isMoving false.
C21_DrainTerminates == <>[](\A c \in Cars : AtRest(elevators[c]))

\* Every call has been made, two passengers were dropped off, and the
\* Elevator is at rest away from the floor it started on.
C21_Witness ==
    /\ budget = 0
    /\ lastCall = NoCall
    /\ AtRest(elevators[1])
    /\ Len(Dropoffs) = 2
    /\ elevators[1].currentFloor # 0

-----------------------------------------------------------------------------
\* C22: a handleRequest call leaves the queue, direction, passengers,
\* currentFloor and isMoving of every Elevator but the selected one as they
\* were (of all of them when none was selected), and a step of a drain
\* changes those fields of one Elevator only.
C22_OneCarPerStep ==
    [][LET changed == {c \in Cars : CarState(elevators'[c]) # CarState(elevators[c])}
       IN /\ JustCalled("handleRequest") => changed \subseteq {lastCall'.car}
          /\ lastCall'.op = "none" => Cardinality(changed) <= 1]_vars

\* handleRequest just gave a request to the second Elevator while the first,
\* in mid-drain away from its start floor, stayed as it was.
C22_Witness ==
    /\ lastCall.op = "handleRequest"
    /\ lastCall.car = 2
    /\ lastCall.ret = "accepted"
    /\ Draining(elevators[2])
    /\ Draining(elevators[1])
    /\ elevators[1].currentFloor > 0

-----------------------------------------------------------------------------
\* C23: an addRequest accepted by an Elevator whose direction is IDLE finds
\* the queue empty, so the request it adds is the head; the Elevator takes
\* that request's direction, and optimizeRequests, called on the queue with
\* the request added, calls itself once and no more.
C23_IdleAdoptsHeadDirection ==
    [][\A c \in Cars :
         (/\ JustCalled("addRequest")
          /\ lastCall'.car = c
          /\ lastCall'.ret = "accepted"
          /\ elevators[c].direction = IDLE)
         => /\ elevators[c].requests = <<>>
            /\ elevators'[c].direction = lastCall'.request.direction
            /\ elevators'[c].direction \in {UP, DOWN}
            /\ optimizeDepth(Push(elevators[c], lastCall'.request)) = 1]_vars

\* An Elevator that had gone back to IDLE after serving a request away from
\* floor 0 accepted a request that goes up and took its direction.
C23_Witness ==
    /\ lastCall.op = "addRequest"
    /\ lastCall.ret = "accepted"
    /\ budget = MaxCarCalls - 2
    /\ elevators[1].currentFloor > 0
    /\ elevators[1].request = lastCall.request
    /\ elevators[1].requests = <<>>
    /\ elevators[1].direction = UP
    /\ elevators[1].passengers = 0

-----------------------------------------------------------------------------
\* C24: whatever its capacity, an Elevator has 0 or 1 passengers, as many as
\* it has picked up and not yet dropped off; its first stop is a pickup, and
\* a pickup is never followed by another pickup nor a drop-off by another
\* drop-off: between the pickup and the drop-off of a request it makes no
\* other stop.
C24_OneAtATime ==
    LET e == elevators[1]
        stops == Stops
    IN /\ e.passengers \in {0, 1}
       /\ e.passengers = Len(SelectSeq(stops, IsPickup)) - Len(SelectSeq(stops, IsDropoff))
       /\ stops # <<>> => IsPickup(stops[1])
       /\ \A k \in 1..(Len(stops) - 1) : IsPickup(stops[k]) # IsPickup(stops[k + 1])

\* An Elevator with room for CapacityLimit passengers has dropped one off and
\* is carrying the next, alone, to the destination.
C24_Witness ==
    /\ elevators[1].capacityLimit = CapacityLimit
    /\ elevators[1].passengers = 1
    /\ Len(Dropoffs) = 1
    /\ Len(Pickups) = 2
    /\ elevators[1].pc = "toDest"

-----------------------------------------------------------------------------
\* C25: in every state between two runs, an Elevator with a request in its
\* queue has isMoving true and a drain in progress that will come to it.
C25_QueuedMeansDraining ==
    \A c \in Cars :
        Len(elevators[c].requests) > 0
        => elevators[c].isMoving /\ Draining(elevators[c])

\* A request was accepted and queued while the drain was one floor from
\* the drop-off of the only request it had left.
C25_Witness ==
    /\ lastCall.op = "addRequest"
    /\ lastCall.ret = "accepted"
    /\ elevators[1].requests = <<lastCall.request>>
    /\ elevators[1].isMoving
    /\ elevators[1].pc = "toDest"
    /\ Distance(elevators[1], elevators[1].request.destinationFloor) = 1

-----------------------------------------------------------------------------
\* C26: a request that handleRequest forwards to an Elevator is accepted by
\* it: the Elevator that passed the test of findOptimalElevator passes the
\* test of addRequest, made in the same run on the same passengers.
C26_ForwardedIsAccepted ==
    lastCall.op = "handleRequest" =>
        /\ lastCall.ret \in {"accepted", "unserved"}
        /\ lastCall.ret = "accepted" <=> lastCall.car # 0
        /\ lastCall.car # 0 =>
              Held(elevators[lastCall.car], lastCall.request) > 0

\* handleRequest passed over two Elevators at capacity, one of them with a
\* passenger on board, and the third accepted the request.
C26_Witness ==
    /\ lastCall.op = "handleRequest"
    /\ lastCall.car = 3
    /\ lastCall.ret = "accepted"
    /\ Full(elevators[1])
    /\ elevators[1].passengers = 1
    /\ Full(elevators[2])

-----------------------------------------------------------------------------
(***************************************************************************)
(* The traffic signal system of unnamed/part_001: TrafficLight, Road (the  *)
(* observer of its light) and TrafficController, set up as runDemo does.   *)
(* Time is not measured: a pending timeout may fire at any moment, so the  *)
(* timers of different lights fire in any order.                           *)
(***************************************************************************)

NoElevators ==
    /\ elevators = <<>>
    /\ observed = 0
    /\ console = <<>>
    /\ lastCall = NoCall

\* Signal
RED == "RED"
YELLOW == "YELLOW"
GREEN == "GREEN"

\* runDemo: three roads, each with a light of its own.
NumRoads == 3
Roads == 1..NumRoads

\* new TrafficLight(id); `pending` holds the timeouts set and neither fired
\* nor cleared, oldest first, each with the nextSignal its callback captured;
\* `timer` says that this.timer is not null, and then this.timer is the
\* timeout set last.  `notified` collects the onSignalChange calls of the
\* current run, as <<observer, signal>>.
TrafficLight(id) ==
    [id |-> id,
     currentSignal |-> RED,
     observers |-> <<>>,
     timer |-> FALSE,
     pending |-> <<>>,
     notified |-> <<>>]

\* addObserver(observer)
addObserver(t, observer) == [t EXCEPT !.observers = Append(@, observer)]

\* notifyObservers(newSignal)
notifyObservers(t, newSignal) ==
    [t EXCEPT !.notified =
        @ \o [i \in 1..Len(t.observers) |-> <<t.observers[i], newSignal>>]]

\* changeSignal(newSignal)
changeSignal(t, newSignal) ==
    notifyObservers([t EXCEPT !.currentSignal = newSignal], newSignal)

\* The sequence q without its element at position i.
RemoveAt(q, i) == SubSeq(q, 1, i - 1) \o SubSeq(q, i + 1, Len(q))

\* Variant: the timer is forgotten but not cleared.
stopCycleNoClear(t) ==
    IF t.timer THEN [t EXCEPT !.timer = FALSE] ELSE t

\* stopCycle(): clearTimeout(this.timer) removes the timeout set last.
stopCycle(t) ==
    IF t.timer
    THEN [t EXCEPT !.pending = RemoveAt(@, Len(@)), !.timer = FALSE]
    ELSE t

\* order.indexOf(signal), counted from 0
order == <<RED, GREEN, YELLOW>>
indexOf(signal) == (CHOOSE i \in 1..Len(order) : order[i] = signal) - 1

\* _runCycle(): the timeout is set with the signal that follows the current
\* one in `order`.
runCycle(t) ==
    LET currentIndex == indexOf(t.currentSignal)
        nextIndex == (currentIndex + 1) % Len(order)
        nextSignal == order[nextIndex + 1]
    IN [t EXCEPT !.pending = Append(@, nextSignal), !.timer = TRUE]

\* startCycle()
startCycle(t) == runCycle(t)

\* setSignalImmediately(newSignal)
setSignalImmediately(t, newSignal) == changeSignal(stopCycle(t), newSignal)

\* The callback of the timeout at position i of t.pending.
timeout(t, i) ==
    runCycle(changeSignal([t EXCEPT !.pending = RemoveAt(@, i)], t.pending[i]))

\* The notifications of a run, and the lights between runs.
Notified(ls) == [l \in DOMAIN ls |-> ls[l].notified]
Quiet(ls) == [l \in DOMAIN ls |-> [ls[l] EXCEPT !.notified = <<>>]]
Traffic(op, l, ls) == [op |-> op, light |-> l, notified |-> Notified(ls)]

\* runDemo up to controller.start(): addRoad(road, light) for each road.
InitTraffic ==
    /\ lights = [l \in Roads |-> addObserver(TrafficLight(l), l)]
    /\ isRunning = FALSE
    /\ lastTraffic = [op |-> "none"]
    /\ budget = MaxTrafficCalls
    /\ NoElevators /\ NoCoffee /\ NoRental
    /\ NoAirline /\ NoAtm /\ NoParking

\* TrafficController.start()
Start ==
    /\ budget > 0
    /\ budget' = budget - 1
    /\ LET ls == IF isRunning THEN lights
                 ELSE [l \in Roads |-> startCycle(lights[l])]
       IN /\ lights' = Quiet(ls)
          /\ lastTraffic' = Traffic("start", 0, ls)
    /\ isRunning' = TRUE
    /\ UNCHANGED otherThanTraffic

\* TrafficController.stop()
Stop ==
    /\ budget > 0
    /\ budget' = budget - 1
    /\ LET ls == IF ~isRunning THEN lights
                 ELSE [l \in Roads |-> stopCycle(lights[l])]
       IN /\ lights' = Quiet(ls)
          /\ lastTraffic' = Traffic("stop", 0, ls)
    /\ isRunning' = FALSE
    /\ UNCHANGED otherThanTraffic

\* TrafficController.handleEmergency()
HandleEmergency ==
    /\ budget > 0
    /\ budget' = budget - 1
    /\ LET ls == [l \in Roads |-> setSignalImmediately(lights[l], RED)]
       IN /\ lights' = Quiet(ls)
          /\ lastTraffic' = Traffic("handleEmergency", 0, ls)
    /\ UNCHANGED <<isRunning, otherThanTraffic>>

\* A timeout of light l fires.
Timeout(l) ==
    /\ \E i \in 1..Len(lights[l].pending) :
         LET ls == [lights EXCEPT ![l] = timeout(@, i)]
         IN /\ lights' = Quiet(ls)
            /\ lastTraffic' = Traffic("timeout", l, ls)
    /\ UNCHANGED <<isRunning, budget, otherThanTraffic>>

NextTraffic ==
    \/ Start
    \/ Stop
    \/ HandleEmergency
    \/ \E l \in Roads : Timeout(l)

SpecTraffic == InitTraffic /\ [][NextTraffic]_vars

-----------------------------------------------------------------------------
\* The cycle of a light is running: a timeout is pending that will change
\* its signal.
Cycling(t) == t.timer /\ Len(t.pending) > 0

\* C27: when handleEmergency() has been called on a running controller, the
\* start() call that follows it leaves every light with its cycle running.
C27_StartAfterEmergencyRestarts ==
    [][(/\ lastTraffic.op = "handleEmergency"
        /\ isRunning
        /\ lastTraffic'.op = "start")
       => \A l \in Roads : Cycling(lights'[l])]_vars

\* The signal that follows s in the cycle RED -> GREEN -> YELLOW -> RED.
Following(signal) ==
    IF signal = RED THEN GREEN
    ELSE IF signal = GREEN THEN YELLOW
    ELSE RED

\* C28: a signal change made by a timeout takes the light from its signal
\* to the one that follows it in the cycle; whenever a step sets a signal,
\* the road observing the light is told that signal, once per change and
\* last the signal the light now shows, and a light that is told nothing has
\* not changed; and under start, stop and handleEmergency a light never has
\* more than one timeout pending, the one this.timer refers to.
C28_CycleOrderAndNotification ==
    /\ [](\A l \in Roads :
            /\ Len(lights[l].pending) <= 1
            /\ lights[l].timer <=> Len(lights[l].pending) = 1)
    /\ [][\A l \in Roads :
            LET told == lastTraffic'.notified[l]
            IN /\ (lastTraffic'.op = "timeout" /\ lastTraffic'.light = l)
                  => /\ lights'[l].currentSignal = Following(lights[l].currentSignal)
                     /\ told = <<<<l, lights'[l].currentSignal>>>>
               /\ told = <<>> => lights'[l].currentSignal = lights[l].currentSignal
               /\ told # <<>> => told[Len(told)] = <<l, lights'[l].currentSignal>>
               /\ lastTraffic'.op = "handleEmergency" => told = <<<<l, RED>>>>]_vars

\* A light that was stopped on GREEN and started again has just turned
\* YELLOW on its timer, and its road was told so.
C28_Witness ==
    /\ lastTraffic.op = "timeout"
    /\ budget = MaxTrafficCalls - 3
    /\ \E l \in Roads :
          /\ lastTraffic.light = l
          /\ lights[l].currentSignal = YELLOW
          /\ lastTraffic.notified[l] = <<<<l, YELLOW>>>>
          /\ lights[l].pending = <<RED>>

-----------------------------------------------------------------------------
(***************************************************************************)
(* The coffee machine of unnamed/part_001: Mutex, Ingredient and           *)
(* CoffeeMachine.  A selectCoffee call runs to its first `await` and is    *)
(* then resumed piece by piece: `microtasks` is the queue of the           *)
(* continuations whose promise is settled, run first in first out, and a   *)
(* call waiting for a Mutex sits in that Mutex's queue instead.  Prices    *)
(* are in tenths of a dollar.                                              *)
(***************************************************************************)

\* new Mutex() inside new Ingredient(name, quantity)
Ingredient(quantity) == [quantity |-> quantity, locked |-> FALSE, queue |-> <<>>]

\* CoffeeMachine.constructor: this.ingredients
NewIngredients ==
    [water |-> Ingredient(1000),
     milk |-> Ingredient(1000),
     coffeeBeans |-> Ingredient(500),
     sugar |-> Ingredient(500)]

\* new Coffee(name, price, recipe); a recipe lists <<ingredientName,
\* requiredQty>> in the order of its Map.
Coffee(price, recipe) == [price |-> price, recipe |-> recipe]

\* CoffeeMachine.constructor: this.menu
menu ==
    [Espresso |-> Coffee(25, <<<<"water", 50>>, <<"coffeeBeans", 18>>>>),
     Cappuccino |->
        Coffee(30, <<<<"water", 30>>, <<"milk", 60>>, <<"coffeeBeans", 18>>>>),
     Latte |->
        Coffee(35, <<<<"water", 30>>, <<"milk", 100>>, <<"coffeeBeans", 18>>>>)]

\* What main's users ask for and pay.
CoffeeNames == {"Espresso", "Cappuccino", "Latte", "Mocha"}
Amounts == {20, 25, 30, 35, 40}

Users == 1..MaxUsers

\* A selectCoffee call not made yet.
NoUser == [pc |-> "idle", coffee |-> "", index |-> 0, qty |-> 0, enough |-> FALSE]

\* The machine as one value.
Machine == [ingredients |-> ingredients, users |-> users, microtasks |-> microtasks]

\* The Map entry of its recipe that call u is at.
entry(m, u) == menu[m.users[u].coffee].recipe[m.users[u].index]
ingredientName(m, u) == entry(m, u)[1]
requiredQty(m, u) == entry(m, u)[2]
lastEntry(m, u) == m.users[u].index = Len(menu[m.users[u].coffee].recipe)

\* Call u is suspended at pc.
at(m, u, pc) == [m EXCEPT !.users[u].pc = pc]

\* An async function returns to call u, which awaits it: the continuation
\* at pc is ready to run.
resolve(m, u, pc) == [at(m, u, pc) EXCEPT !.microtasks = Append(@, u)]

\* `await mutex.lock()` by call u
lock(m, name, u) ==
    IF m.ingredients[name].locked
    THEN [m EXCEPT !.ingredients[name].queue = Append(@, u)]
    ELSE [m EXCEPT !.ingredients[name].locked = TRUE,
                   !.microtasks = Append(@, u)]

\* mutex.unlock(): the Mutex goes to the call that waited longest.
unlock(m, name) ==
    LET queue == m.ingredients[name].queue
    IN IF Len(queue) > 0
       THEN [m EXCEPT !.ingredients[name].queue = Tail(@),
                      !.microtasks = Append(@, Head(queue))]
       ELSE [m EXCEPT !.ingredients[name].locked = FALSE]

\* ingredient.getQuantity() called by u, up to `await this.mutex.lock()`
getQuantity(m, u, pc) == lock(at(m, u, pc), ingredientName(m, u), u)

\* ingredient.getQuantity() once u holds the Mutex
getQuantityLocked(m, u, pc) ==
    LET name == ingredientName(m, u)
        qty == m.ingredients[name].quantity
    IN resolve(unlock([m EXCEPT !.users[u].qty = qty], name), u, pc)

\* ingredient.updateQuantity(amount) called by u, up to the lock
updateQuantity(m, u, pc) == lock(at(m, u, pc), ingredientName(m, u), u)

\* ingredient.updateQuantity(-requiredQty) once u holds the Mutex
updateQuantityLocked(m, u, pc) ==
    LET name == ingredientName(m, u)
        amount == 0 - requiredQty(m, u)
    IN resolve(unlock([m EXCEPT !.ingredients[name].quantity = @ + amount],
                      name), u, pc)

\* hasEnoughIngredients(coffeeName): the loop, from the value getQuantity
\* returned for the entry u is at.
hasEnoughIngredients(m, u) ==
    IF m.users[u].qty < requiredQty(m, u)
    THEN resolve([m EXCEPT !.users[u].enough = FALSE], u, "selectCoffee")
    ELSE IF lastEntry(m, u)
    THEN resolve([m EXCEPT !.users[u].enough = TRUE], u, "selectCoffee")
    ELSE getQuantity([m EXCEPT !.users[u].index = @ + 1], u, "getQuantity")

\* selectCoffee after `await this.hasEnoughIngredients(coffeeName)`: throw,
\* or dispenseCoffee -> updateIngredients up to its first await.
selectCoffeeChecked(m, u) ==
    IF ~m.users[u].enough
    THEN at(m, u, "failed")
    ELSE updateQuantity([m EXCEPT !.users[u].index = 1], u, "updateQuantity")

\* updateIngredients(coffeeName): the loop, after the new quantity was read
updateIngredients(m, u) ==
    IF lastEntry(m, u)
    THEN resolve(m, u, "dispenseCoffee")
    ELSE updateQuantity([m EXCEPT !.users[u].index = @ + 1], u, "updateQuantity")

\* The continuation of call u.
continue(m, u) ==
    LET pc == m.users[u].pc
    IN CASE pc = "getQuantity" -> getQuantityLocked(m, u, "hasEnoughIngredients")
         [] pc = "hasEnoughIngredients" -> hasEnoughIngredients(m, u)
         [] pc = "selectCoffee" -> selectCoffeeChecked(m, u)
         [] pc = "updateQuantity" -> updateQuantityLocked(m, u, "updateIngredients")
         [] pc = "updateIngredients" -> getQuantity(m, u, "getNewQuantity")
         [] pc = "getNewQuantity" -> getQuantityLocked(m, u, "lowWarning")
         [] pc = "lowWarning" -> updateIngredients(m, u)
         [] pc = "dispenseCoffee" -> resolve(m, u, "change")
         [] pc = "change" -> at(m, u, "done")

\* selectCoffee(coffeeName, payment) up to its first await
selectCoffee(m, u, coffeeName, amount) ==
    IF coffeeName \notin DOMAIN menu
    THEN [m EXCEPT !.users[u] = [NoUser EXCEPT !.pc = "failed", !.coffee = coffeeName]]
    ELSE IF amount < menu[coffeeName].price
    THEN [m EXCEPT !.users[u] = [NoUser EXCEPT !.pc = "failed", !.coffee = coffeeName]]
    ELSE getQuantity(
            [m EXCEPT !.users[u] = [NoUser EXCEPT !.coffee = coffeeName, !.index = 1]],
            u, "getQuantity")

\* The stock after `sold` espressos were sold one after the other.
StockAfter(sold) ==
    [NewIngredients EXCEPT !.water.quantity = @ - 50 * sold,
                           !.coffeeBeans.quantity = @ - 18 * sold]

\* The machine after up to MaxSold espressos, no call in progress.
InitCoffee ==
    /\ \E sold \in 0..MaxSold : ingredients = StockAfter(sold)
    /\ users = [u \in Users |-> NoUser]
    /\ microtasks = <<>>
    /\ budget = MaxUsers
    /\ NoElevators /\ NoTraffic /\ NoRental
    /\ NoAirline /\ NoAtm /\ NoParking

\* The next user calls selectCoffee(coffeeName, new Payment(amount)).
SelectCoffee(coffeeName, amount) ==
    /\ budget > 0
    /\ budget' = budget - 1
    /\ LET m == selectCoffee(Machine, MaxUsers - budget + 1, coffeeName, amount)
       IN /\ ingredients' = m.ingredients
          /\ users' = m.users
          /\ microtasks' = m.microtasks
    /\ UNCHANGED otherThanCoffee

\* The first ready continuation runs to its next await.
Continue ==
    /\ microtasks # <<>>
    /\ LET m == continue([Machine EXCEPT !.microtasks = Tail(@)], Head(microtasks))
       IN /\ ingredients' = m.ingredients
          /\ users' = m.users
          /\ microtasks' = m.microtasks
    /\ UNCHANGED <<budget, otherThanCoffee>>

NextCoffee ==
    \/ \E coffeeName \in CoffeeNames, amount \in Amounts :
          SelectCoffee(coffeeName, amount)
    \/ Continue

SpecCoffee == InitCoffee /\ [][NextCoffee]_vars

-----------------------------------------------------------------------------
\* C29: whatever the order in which selectCoffee calls are made and resumed,
\* the quantity of no ingredient is ever below zero.
C29_NeverNegative ==
    \A name \in DOMAIN ingredients : ingredients[name].quantity >= 0

-----------------------------------------------------------------------------
(***************************************************************************)
(* The car rental system of unnamed/part_000: RentalSystem with the cars   *)
(* that CarRentalSystem.run adds.  A date is a day number; every method    *)
(* runs to completion, so each is one step.                                *)
(***************************************************************************)

\* run(): car1, car2, car3
NumCars == 3
Fleet == 1..NumCars

Days == 1..MaxDay
ReservationIds == 1..MaxRentalCalls

\* new Reservation(reservationId, customer, car, startDate, endDate, totalPrice)
Reservation(car, startDate, endDate) ==
    [car |-> car, startDate |-> startDate, endDate |-> endDate]

\* isDateOverlap(start1, end1, start2, end2)
isDateOverlap(start1, end1, start2, end2) == start1 <= end2 /\ end1 >= start2

\* isCarAvailable(car, startDate, endDate)
isCarAvailable(car, startDate, endDate) ==
    IF ~isAvailable[car]
    THEN FALSE
    ELSE \A id \in DOMAIN reservations :
            reservations[id].car = car
                => ~isDateOverlap(startDate, endDate,
                                  reservations[id].startDate, reservations[id].endDate)

\* this.reservations.delete(reservationId)
delete(map, key) == [k \in DOMAIN map \ {key} |-> map[k]]

\* The call made by a step and the value it returned (null: "null").
Rental(op, arg, startDate, endDate, returned) ==
    [op |-> op, arg |-> arg, startDate |-> startDate, endDate |-> endDate,
     returned |-> returned]

\* new RentalSystem() and the addCar calls of run()
InitRental ==
    /\ isAvailable = [car \in Fleet |-> TRUE]
    /\ reservations = <<>>
    /\ nextReservationId = 1
    /\ lockedCars = {}
    /\ lastRental = [op |-> "none"]
    /\ budget = MaxRentalCalls
    /\ NoElevators /\ NoTraffic /\ NoCoffee
    /\ NoAirline /\ NoAtm /\ NoParking

\* makeReservation(customer, car, startDate, endDate, paymentProcessor,
\* paymentDetails); paymentSuccess is what processPayment returns.
MakeReservation(car, startDate, endDate, paymentSuccess) ==
    /\ budget > 0
    /\ budget' = budget - 1
    /\ IF ~isCarAvailable(car, startDate, endDate) \/ car \in lockedCars
       THEN /\ lastRental' = Rental("makeReservation", car, startDate, endDate, "null")
            /\ UNCHANGED <<isAvailable, reservations, nextReservationId, lockedCars>>
       ELSE IF ~paymentSuccess
       THEN /\ lastRental' = Rental("makeReservation", car, startDate, endDate, "null")
            /\ lockedCars' = (lockedCars \cup {car}) \ {car}
            /\ UNCHANGED <<isAvailable, reservations, nextReservationId>>
       ELSE /\ nextReservationId' = nextReservationId + 1
            /\ isAvailable' = [isAvailable EXCEPT ![car] = FALSE]
            /\ reservations' = reservations @@
                  (nextReservationId :> Reservation(car, startDate, endDate))
            /\ lockedCars' = (lockedCars \cup {car}) \ {car}
            /\ lastRental' = Rental("makeReservation", car, startDate, endDate,
                                    nextReservationId)
    /\ UNCHANGED otherThanRental

\* cancelReservation(reservationId)
CancelReservation(reservationId) ==
    /\ budget > 0
    /\ budget' = budget - 1
    /\ IF reservationId \notin DOMAIN reservations
       THEN /\ lastRental' = Rental("cancelReservation", reservationId, 0, 0, FALSE)
            /\ UNCHANGED <<isAvailable, reservations>>
       ELSE /\ isAvailable' =
                  [isAvailable EXCEPT ![reservations[reservationId].car] = TRUE]
            /\ reservations' = delete(reservations, reservationId)
            /\ lastRental' = Rental("cancelReservation", reservationId, 0, 0, TRUE)
    /\ UNCHANGED <<nextReservationId, lockedCars, otherThanRental>>

\* modifyReservation(reservationId, newStartDate, newEndDate)
ModifyReservation(reservationId, newStartDate, newEndDate) ==
    /\ budget > 0
    /\ budget' = budget - 1
    /\ IF reservationId \notin DOMAIN reservations
       THEN /\ lastRental' = Rental("modifyReservation", reservationId,
                                    newStartDate, newEndDate, FALSE)
            /\ UNCHANGED reservations
       ELSE IF ~isCarAvailable(reservations[reservationId].car,
                               newStartDate, newEndDate)
       THEN /\ lastRental' = Rental("modifyReservation", reservationId,
                                    newStartDate, newEndDate, FALSE)
            /\ UNCHANGED reservations
       ELSE /\ reservations' =
                  [reservations EXCEPT ![reservationId].startDate = newStartDate,
                                       ![reservationId].endDate = newEndDate]
            /\ lastRental' = Rental("modifyReservation", reservationId,
                                    newStartDate, newEndDate, TRUE)
    /\ UNCHANGED <<isAvailable, nextReservationId, lockedCars, otherThanRental>>

NextRental ==
    \/ \E car \in Fleet, startDate \in Days, endDate \in Days,
          paymentSuccess \in BOOLEAN :
          MakeReservation(car, startDate, endDate, paymentSuccess)
    \/ \E reservationId \in ReservationIds : CancelReservation(reservationId)
    \/ \E reservationId \in ReservationIds, newStartDate \in Days,
          newEndDate \in Days :
          ModifyReservation(reservationId, newStartDate, newEndDate)

SpecRental == InitRental /\ [][NextRental]_vars

-----------------------------------------------------------------------------
\* Another reservation of the car of reservation id overlaps the dates.
OverlapsAnother(id, startDate, endDate) ==
    \E other \in DOMAIN reservations \ {id} :
        /\ reservations[other].car = reservations[id].car
        /\ isDateOverlap(startDate, endDate,
                         reservations[other].startDate, reservations[other].endDate)

\* C30: modifyReservation on an existing reservation, with new dates that
\* overlap no other reservation of its car, returns true and leaves the
\* reservation with the new dates.
C30_ModifyNonOverlapping ==
    [][(/\ lastRental'.op = "modifyReservation"
        /\ lastRental'.arg \in DOMAIN reservations
        /\ ~OverlapsAnother(lastRental'.arg, lastRental'.startDate,
                            lastRental'.endDate))
       => /\ lastRental'.returned = TRUE
          /\ reservations'[lastRental'.arg].startDate = lastRental'.startDate
          /\ reservations'[lastRental'.arg].endDate = lastRental'.endDate]_vars

-----------------------------------------------------------------------------
(***************************************************************************)
(* The airline system of "Airline Management System/index.js": one Flight *)
(* with its Aircraft and one registered Passenger, as the example sets up, *)
(* then bookFlight, makePayment and cancelBooking calls.  A booking number *)
(* is the value of Date.now() when the booking is created; the clock may   *)
(* or may not have advanced between two calls.  The price, payment method  *)
(* and amount are stored and never read, and are left out.                 *)
(***************************************************************************)

\* SeatStatus, BookingStatus, PaymentStatus
AVAILABLE == "Available"
BOOKED == "Booked"
CONFIRMED == "Confirmed"
CANCELLED == "Cancelled"
PENDING == "Pending"
COMPLETED == "Completed"

\* The flight and the passenger of the example, and one of each that the
\* system does not know.
FlightNumbers == {"FL123", "FL999"}
PassengerIds == {"P001", "P999"}

\* aircraft.seats, and the numbers a caller may ask for (one is no seat).
SeatNumbers == 1..MaxSeat
AskedSeatNumbers == 1..(MaxSeat + 1)

\* The values of Date.now() during the calls.
Times == 1..(MaxAirlineCalls + 1)

\* new Booking(bookingNumber, flight, passenger, seat, price)
Booking(bookingNumber, passenger, seat) ==
    [bookingNumber |-> bookingNumber, passenger |-> passenger, seat |-> seat,
     bookingStatus |-> PENDING]

\* new Payment(paymentId, booking, paymentMethod, amount) after
\* completePayment(); booking is the position of the Booking in bookings.
Payment(paymentId, booking) ==
    [paymentId |-> paymentId, booking |-> booking, paymentStatus |-> COMPLETED]

\* this.bookings.find((b) => b.bookingNumber === bookingNumber): the position
\* of the first such booking, 0 when there is none.
getBooking(bookingNumber) ==
    LET found == {i \in 1..Len(bookings) : bookings[i].bookingNumber = bookingNumber}
    IN IF found = {} THEN 0 ELSE CHOOSE i \in found : \A j \in found : i <= j

\* The example up to the first bookFlight call.
InitAirline ==
    /\ seats = [n \in SeatNumbers |-> AVAILABLE]
    /\ bookings = <<>>
    /\ payments = <<>>
    /\ clock = 1
    /\ budget = MaxAirlineCalls
    /\ NoElevators /\ NoTraffic /\ NoCoffee /\ NoRental /\ NoAtm /\ NoParking

\* bookFlight(flightNumber, passengerId, seatNumber, price) ->
\* BookingManager.createBooking, with Date.now() = now
BookFlight(flightNumber, passengerId, seatNumber, now) ==
    /\ budget > 0
    /\ budget' = budget - 1
    /\ now \in {clock, clock + 1}
    /\ IF flightNumber # "FL123" \/ passengerId # "P001"
       THEN UNCHANGED <<bookings, clock>>
       ELSE IF seatNumber \in SeatNumbers /\ seats[seatNumber] = AVAILABLE
       THEN /\ bookings' = Append(bookings, Booking(now, passengerId, seatNumber))
            /\ clock' = now
       ELSE UNCHANGED <<bookings, clock>>
    /\ UNCHANGED <<seats, payments, otherThanAirline>>

\* makePayment(bookingNumber, paymentMethod, amount) ->
\* PaymentProcessor.processPayment -> Payment.completePayment ->
\* Booking.confirmBooking, with Date.now() = now
MakePayment(bookingNumber, now) ==
    /\ budget > 0
    /\ budget' = budget - 1
    /\ now \in {clock, clock + 1}
    /\ LET booking == getBooking(bookingNumber)
       IN IF booking = 0
          THEN UNCHANGED <<seats, bookings, payments, clock>>
          ELSE /\ bookings' = [bookings EXCEPT ![booking].bookingStatus = CONFIRMED]
               /\ seats' = [seats EXCEPT ![bookings[booking].seat] = BOOKED]
               /\ payments' = Append(payments, Payment(now, booking))
               /\ clock' = now
    /\ UNCHANGED otherThanAirline

\* cancelBooking(bookingNumber) -> BookingManager.cancelBooking ->
\* Booking.cancelBooking
CancelBooking(bookingNumber) ==
    /\ budget > 0
    /\ budget' = budget - 1
    /\ LET booking == getBooking(bookingNumber)
       IN IF booking # 0 /\ bookings[booking].bookingStatus = CONFIRMED
          THEN /\ bookings' = [bookings EXCEPT ![booking].bookingStatus = CANCELLED]
               /\ seats' = [seats EXCEPT ![bookings[booking].seat] = AVAILABLE]
          ELSE UNCHANGED <<seats, bookings>>
    /\ UNCHANGED <<payments, clock, otherThanAirline>>

NextAirline ==
    \/ \E flightNumber \in FlightNumbers, passengerId \in PassengerIds,
          seatNumber \in AskedSeatNumbers, now \in Times :
          BookFlight(flightNumber, passengerId, seatNumber, now)
    \/ \E bookingNumber \in Times, now \in Times : MakePayment(bookingNumber, now)
    \/ \E bookingNumber \in Times : CancelBooking(bookingNumber)

SpecAirline == InitAirline /\ [][NextAirline]_vars

-----------------------------------------------------------------------------
\* The CONFIRMED bookings that refer to seat n.
ConfirmedFor(n) ==
    {i \in 1..Len(bookings) :
        bookings[i].seat = n /\ bookings[i].bookingStatus = CONFIRMED}

\* C31: no seat is held by two CONFIRMED bookings, and a seat is BOOKED
\* exactly when one CONFIRMED booking refers to it.
C31_SeatHeldByOneConfirmed ==
    \A n \in DOMAIN seats :
        /\ Cardinality(ConfirmedFor(n)) <= 1
        /\ seats[n] = BOOKED <=> Cardinality(ConfirmedFor(n)) = 1

-----------------------------------------------------------------------------
(***************************************************************************)
(* The ATM of unnamed/part_002: Account, BankingService, CashDispenser and *)
(* ATM, with the two accounts and cards that main adds.  Every method runs *)
(* to completion, so each call is one step; a call that throws keeps the   *)
(* assignments it made before the throw.                                   *)
(***************************************************************************)

\* main: card1 and card2, new Card(cardNumber, pin, accountNumber)
cards ==
    [c1111 |-> [pin |-> "1234", accountNumber |-> "a123456789"],
     c5555 |-> [pin |-> "5678", accountNumber |-> "a987654321"]]

\* What a user may insert and type: the cards of main and one unknown card.
CardNumbers == DOMAIN cards \cup {"c0000"}
Pins == {"1234", "5678"}

\* new CashDispenser(): totalCash = 10000
DefaultCash == 10000

\* The balance account1 is opened with: main's, and one above the cash the
\* dispenser is built with.
OpeningBalances == {1000, 20000}

\* The amounts asked for: main's 500, 300 and 2500, none, a negative one and
\* one above the dispenser's cash.
CashAmounts == {0 - 100, 0, 300, 500, 2500, 15000}

\* The call made by a step and whether it threw.
Atm(op, amount, threw) == [op |-> op, amount |-> amount, threw |-> threw]

\* Account.debit(amount) on balance: the new balance, and whether it threw.
debit(balance, amount) ==
    IF amount <= 0 THEN [balance |-> balance, threw |-> TRUE]
    ELSE IF amount > balance THEN [balance |-> balance, threw |-> TRUE]
    ELSE [balance |-> balance - amount, threw |-> FALSE]

\* Account.credit(amount)
credit(balance, amount) ==
    IF amount <= 0 THEN [balance |-> balance, threw |-> TRUE]
    ELSE [balance |-> balance + amount, threw |-> FALSE]

\* CashDispenser.dispenseCash(amount)
dispenseCash(cash, amount) ==
    IF amount <= 0 THEN [totalCash |-> cash, threw |-> TRUE]
    ELSE IF amount > cash THEN [totalCash |-> cash, threw |-> TRUE]
    ELSE [totalCash |-> cash - amount, threw |-> FALSE]

\* CashDispenser.addCash(amount)
addCash(cash, amount) ==
    IF amount <= 0 THEN [totalCash |-> cash, threw |-> TRUE]
    ELSE [totalCash |-> cash + amount, threw |-> FALSE]

\* BankingService.validateCard(cardNumber, pin): the card, or "throws"
validateCard(cardNumber, pin) ==
    IF cardNumber \notin DOMAIN cards THEN "throws"
    ELSE IF cards[cardNumber].pin # pin THEN "throws"
    ELSE cardNumber

\* main up to the first insertCard
InitAtm ==
    /\ \E balance \in OpeningBalances :
          accounts = [a123456789 |-> balance, a987654321 |-> 2000]
    /\ totalCash = DefaultCash
    /\ currentCard = "null"
    /\ authenticated = FALSE
    /\ currentCardNumber = "null"
    /\ lastAtm = [op |-> "none"]
    /\ budget = MaxAtmCalls
    /\ NoElevators /\ NoTraffic /\ NoCoffee /\ NoRental /\ NoAirline /\ NoParking

\* insertCard(cardNumber)
InsertCard(cardNumber) ==
    /\ budget > 0
    /\ budget' = budget - 1
    /\ currentCardNumber' = cardNumber
    /\ lastAtm' = Atm("insertCard", 0, FALSE)
    /\ UNCHANGED <<accounts, totalCash, currentCard, authenticated, otherThanAtm>>

\* enterPin(pin)
EnterPin(pin) ==
    /\ budget > 0
    /\ budget' = budget - 1
    /\ LET card == validateCard(currentCardNumber, pin)
       IN IF card = "throws"
          THEN /\ lastAtm' = Atm("enterPin", 0, TRUE)
               /\ UNCHANGED <<currentCard, authenticated>>
          ELSE /\ currentCard' = card
               /\ authenticated' = TRUE
               /\ lastAtm' = Atm("enterPin", 0, FALSE)
    /\ UNCHANGED <<accounts, totalCash, currentCardNumber, otherThanAtm>>

\* checkBalance()
CheckBalance ==
    /\ budget > 0
    /\ budget' = budget - 1
    /\ lastAtm' = Atm("checkBalance", 0, ~authenticated)
    /\ UNCHANGED <<accounts, totalCash, currentCard, authenticated,
                   currentCardNumber, otherThanAtm>>

\* withdraw(amount): WithdrawalTransaction.execute -> Account.debit, then
\* CashDispenser.dispenseCash
Withdraw(amount) ==
    /\ budget > 0
    /\ budget' = budget - 1
    /\ IF ~authenticated
       THEN /\ lastAtm' = Atm("withdraw", amount, TRUE)
            /\ UNCHANGED <<accounts, totalCash>>
       ELSE LET accountNumber == cards[currentCard].accountNumber
                debited == debit(accounts[accountNumber], amount)
                dispensed == dispenseCash(totalCash, amount)
            IN IF debited.threw
               THEN /\ lastAtm' = Atm("withdraw", amount, TRUE)
                    /\ UNCHANGED <<accounts, totalCash>>
               ELSE /\ accounts' = [accounts EXCEPT ![accountNumber] = debited.balance]
                    /\ totalCash' = dispensed.totalCash
                    /\ lastAtm' = Atm("withdraw", amount, dispensed.threw)
    /\ UNCHANGED <<currentCard, authenticated, currentCardNumber, otherThanAtm>>

\* deposit(amount): DepositTransaction.execute -> Account.credit, then
\* CashDispenser.addCash
Deposit(amount) ==
    /\ budget > 0
    /\ budget' = budget - 1
    /\ IF ~authenticated
       THEN /\ lastAtm' = Atm("deposit", amount, TRUE)
            /\ UNCHANGED <<accounts, totalCash>>
       ELSE LET accountNumber == cards[currentCard].accountNumber
                credited == credit(accounts[accountNumber], amount)
                added == addCash(totalCash, amount)
            IN IF credited.threw
               THEN /\ lastAtm' = Atm("deposit", amount, TRUE)
                    /\ UNCHANGED <<accounts, totalCash>>
               ELSE /\ accounts' = [accounts EXCEPT ![accountNumber] = credited.balance]
                    /\ totalCash' = added.totalCash
                    /\ lastAtm' = Atm("deposit", amount, added.threw)
    /\ UNCHANGED <<currentCard, authenticated, currentCardNumber, otherThanAtm>>

\* ejectCard()
EjectCard ==
    /\ budget > 0
    /\ budget' = budget - 1
    /\ currentCard' = "null"
    /\ authenticated' = FALSE
    /\ currentCardNumber' = "null"
    /\ lastAtm' = Atm("ejectCard", 0, FALSE)
    /\ UNCHANGED <<accounts, totalCash, otherThanAtm>>

NextAtm ==
    \/ \E cardNumber \in CardNumbers : InsertCard(cardNumber)
    \/ \E pin \in Pins : EnterPin(pin)
    \/ CheckBalance
    \/ \E amount \in CashAmounts : Withdraw(amount)
    \/ \E amount \in CashAmounts : Deposit(amount)
    \/ EjectCard

SpecAtm == InitAtm /\ [][NextAtm]_vars

-----------------------------------------------------------------------------
\* C32: a withdraw call that throws leaves the balance of every account and
\* the dispenser's total cash as they were.
C32_FailedWithdrawChangesNothing ==
    [][(lastAtm'.op = "withdraw" /\ lastAtm'.threw)
       => (accounts' = accounts /\ totalCash' = totalCash)]_vars

-----------------------------------------------------------------------------
(***************************************************************************)
(* The parking lot of unnamed/part_003: ParkingSpot, Level, Lock and       *)
(* ParkingLot, with the two levels the example builds.  A call runs to its *)
(* `await this.lock.acquire()`; what follows the await (the try block and  *)
(* release() in its finally) is one continuation.  `jobs` is the queue of  *)
(* the continuations whose promise is settled, run first in first out; a   *)
(* call suspended inside acquire() has its resolve in the Lock's _waiting. *)
(***************************************************************************)

\* VehicleType
CAR == "CAR"
MOTORCYCLE == "MOTORCYCLE"
TRUCK == "TRUCK"

\* The example's vehicles: licensePlate -> type
vehicleType ==
    [ABC123 |-> CAR, XYZ789 |-> CAR, MOTO001 |-> MOTORCYCLE, TRK100 |-> TRUCK]
Vehicles == DOMAIN vehicleType

\* The allowedType of the spots of Level1 and Level2, in the order of the
\* example's arrays.
allowedType ==
    <<<<CAR, CAR, CAR, CAR, CAR, MOTORCYCLE, MOTORCYCLE>>,
      <<CAR, CAR, TRUCK, TRUCK>>>>

\* The spots as <<level, spot>>, and the order in which the loops over
\* this.levels and level.spots meet them.
Spots == {<<l, s>> : l \in 1..2, s \in 1..7} \cap
         {ls \in (1..2) \X (1..7) : ls[2] <= Len(allowedType[ls[1]])}
Earlier(a, b) == a[1] < b[1] \/ (a[1] = b[1] /\ a[2] <= b[2])
FirstOf(found) == CHOOSE a \in found : \A b \in found : Earlier(a, b)

\* The calls of the example, and two that are refused before the lock.
Operations ==
    {[op |-> "parkVehicle", arg |-> v] : v \in Vehicles \cup {"invalid"}}
    \cup {[op |-> "unparkVehicle", arg |-> v] : v \in Vehicles \cup {""}}
    \cup {[op |-> "getAvailability", arg |-> ""]}

Callers == 1..MaxCallers

\* A call not made yet.
NoCaller ==
    [pc |-> "idle", op |-> "", arg |-> "", waits |-> 0, threw |-> FALSE,
     returned |-> "none"]

\* The parking lot as one value.
Lot == [levels |-> levels, lotLock |-> lotLock, callers |-> callers, jobs |-> jobs]

\* ParkingSpot.canPark(vehicle)
canPark(p, spot, vehicle) ==
    /\ p.levels[spot[1]][spot[2]] = "null"
    /\ vehicleType[vehicle] = allowedType[spot[1]][spot[2]]

\* The try block of parkVehicle(vehicle): Level.parkVehicle on each level
parkVehicle(p, c) ==
    LET vehicle == p.callers[c].arg
        found == {spot \in Spots : canPark(p, spot, vehicle)}
    IN IF found = {}
       THEN [p EXCEPT !.callers[c].threw = TRUE]
       ELSE LET spot == FirstOf(found)
            IN [p EXCEPT !.levels[spot[1]][spot[2]] = vehicle,
                         !.callers[c].returned = spot]

\* The try block of unparkVehicle(licensePlate): Level.unparkVehicle on each
\* level
unparkVehicle(p, c) ==
    LET licensePlate == p.callers[c].arg
        found == {spot \in Spots : p.levels[spot[1]][spot[2]] = licensePlate}
    IN IF found = {}
       THEN [p EXCEPT !.callers[c].returned = "null"]
       ELSE LET spot == FirstOf(found)
            IN [p EXCEPT !.levels[spot[1]][spot[2]] = "null",
                         !.callers[c].returned = spot]

\* The try block of getAvailability(): the number of available spots
getAvailability(p, c) ==
    [p EXCEPT !.callers[c].returned =
        Cardinality({spot \in Spots : p.levels[spot[1]][spot[2]] = "null"})]

\* Variant: the Lock is taken without being tested.
acquireNoRetest(p, c) ==
    [p EXCEPT !.lotLock.locked = TRUE,
              !.callers[c].pc = "acquired",
              !.jobs = Append(@, c)]

\* Lock.acquire() by call c, from the test of its while loop: either c waits
\* (`waits` counts how many times it has), or it takes the Lock and the call
\* that awaits acquire() is ready to go on.
acquire(p, c) ==
    IF p.lotLock.locked
    THEN [p EXCEPT !.lotLock.waiting = Append(@, c),
                   !.callers[c].pc = "waiting",
                   !.callers[c].waits = @ + 1]
    ELSE [p EXCEPT !.lotLock.locked = TRUE,
                   !.callers[c].pc = "acquired",
                   !.jobs = Append(@, c)]

\* Variant: the Lock is freed and nobody is woken.
releaseNoWake(p) == [p EXCEPT !.lotLock.locked = FALSE]

\* Lock.release(): the first waiting call is woken and will test the Lock
\* again.
release(p) ==
    LET waiting == p.lotLock.waiting
    IN IF Len(waiting) > 0
       THEN [p EXCEPT !.lotLock.locked = FALSE,
                      !.lotLock.waiting = Tail(@),
                      !.callers[Head(waiting)].pc = "woken",
                      !.jobs = Append(@, Head(waiting))]
       ELSE [p EXCEPT !.lotLock.locked = FALSE]

\* What follows `await this.lock.acquire()`: try, finally, and the call is
\* over.
critical(p, c) ==
    LET op == p.callers[c].op
        q == CASE op = "parkVehicle" -> parkVehicle(p, c)
               [] op = "unparkVehicle" -> unparkVehicle(p, c)
               [] op = "getAvailability" -> getAvailability(p, c)
        r == release(q)
    IN [r EXCEPT !.callers[c].pc =
            IF r.callers[c].threw THEN "threw" ELSE "done"]

\* The continuation of call c.
resume(p, c) ==
    IF p.callers[c].pc = "woken" THEN acquire(p, c) ELSE critical(p, c)

\* parkVehicle, unparkVehicle or getAvailability up to its await
call(p, c, operation) ==
    LET q == [p EXCEPT !.callers[c] =
                 [NoCaller EXCEPT !.op = operation.op, !.arg = operation.arg]]
    IN IF operation.op = "parkVehicle" /\ operation.arg \notin Vehicles
       THEN [q EXCEPT !.callers[c].pc = "threw", !.callers[c].threw = TRUE]
       ELSE IF operation.op = "unparkVehicle" /\ operation.arg = ""
       THEN [q EXCEPT !.callers[c].pc = "threw", !.callers[c].threw = TRUE]
       ELSE acquire(q, c)

\* The example up to its first parkVehicle call.
InitParking ==
    /\ levels = [l \in 1..2 |-> [s \in 1..Len(allowedType[l]) |-> "null"]]
    /\ lotLock = [locked |-> FALSE, waiting |-> <<>>]
    /\ callers = [c \in Callers |-> NoCaller]
    /\ jobs = <<>>
    /\ budget = MaxCallers
    /\ NoElevators /\ NoTraffic /\ NoCoffee /\ NoRental /\ NoAirline /\ NoAtm

\* The next caller calls the ParkingLot.
CallLot(operation) ==
    /\ budget > 0
    /\ budget' = budget - 1
    /\ LET p == call(Lot, MaxCallers - budget + 1, operation)
       IN /\ levels' = p.levels
          /\ lotLock' = p.lotLock
          /\ callers' = p.callers
          /\ jobs' = p.jobs
    /\ UNCHANGED otherThanParking

\* The first ready continuation runs to its next await.
RunJob ==
    /\ jobs # <<>>
    /\ LET p == resume([Lot EXCEPT !.jobs = Tail(@)], Head(jobs))
       IN /\ levels' = p.levels
          /\ lotLock' = p.lotLock
          /\ callers' = p.callers
          /\ jobs' = p.jobs
    /\ UNCHANGED <<budget, otherThanParking>>

NextParking ==
    \/ \E operation \in Operations : CallLot(operation)
    \/ RunJob

SpecParking == InitParking /\ [][NextParking]_vars

\* The event loop runs every continuation that is ready: weak fairness of
\* RunJob, which is enabled exactly when jobs is not empty.
JobFairness == []<>(jobs = <<>>) \/ []<><<RunJob>>_vars

SpecParkingFair == SpecParking /\ JobFairness

-----------------------------------------------------------------------------
\* The calls that hold the Lock: acquire() has returned to them and their
\* finally block has not run.
Holders == {c \in DOMAIN callers : callers[c].pc = "acquired"}

\* C33: at most one call holds the Lock, and the Lock is marked locked
\* exactly while a call holds it.
C33_OneHolder ==
    /\ Cardinality(Holders) <= 1
    /\ lotLock.locked <=> Holders # {}

\* release() has woken a waiting call, and another call has taken the Lock
\* before the woken one resumed.
C33_Witness ==
    \E w \in DOMAIN callers, b \in DOMAIN callers :
        /\ callers[w].pc = "woken"
        /\ callers[b].pc = "acquired"
        /\ callers[b].op = "parkVehicle"
        /\ lotLock.locked

\* The call is over: it returned or threw.
Over(c) == callers[c].pc \in {"done", "threw"}

\* C34: the Lock is never free with a call waiting and none woken, and
\* from some moment on every call that was made is over: none stays
\* suspended in acquire().
C34_WaiterAcquires ==
    /\ []((~lotLock.locked /\ lotLock.waiting # <<>>)
            => \E c \in Callers : callers[c].pc = "woken")
    /\ <>[](\A c \in Callers : callers[c].pc = "idle" \/ Over(c))

\* A call that waited, was woken, found the Lock taken by a later call and
\* waited again, has got the Lock in the end and returned.
C34_Witness ==
    \E c \in DOMAIN callers :
        /\ callers[c].pc = "done"
        /\ callers[c].waits = 2

=============================================================================
